---- MODULE Spec2Model ----
(***************************************************************************)
(* Strain-seer: the numerical engine (point normalization and 2D strain    *)
(* tensor estimation) of src/strain_analysis_core.py and of its older      *)
(* twin src/strain_analysis.py.                                            *)
(*                                                                         *)
(* Numbers.  The code works on float64.  The model computes in exact       *)
(* arithmetic: a finite value is a rational <<n, d>> in lowest terms       *)
(* (d > 0); the result of np.linalg.norm is a rational multiple of the     *)
(* square root of a squarefree integer; and a division by zero yields the  *)
(* IEEE values inf, -inf and nan, as numpy's float64 division does.        *)
(* Rounding error is not modelled.                                         *)
(***************************************************************************)
EXTENDS Integers, Sequences, FiniteSets, TLC

VARIABLES
    call,      \* the call under way: the function's name and its arguments
    impl,      \* the module that ran it: "none", "core" or "legacy"
    pc,        \* "ready" before the function runs, "done" after
    result,    \* what the call gave its caller: a return value or an exception
    locals,    \* the local variables the function left behind
    stdout,    \* the lines written to standard output
    history,   \* the calls made so far, each with its module and its outcome
    session_state,  \* st.session_state of the Streamlit application
    workers,   \* the workers of a parallel map, each with its own frame
    network    \* the HTTP requests sent so far

vars ==
    <<call, impl, pc, result, locals, stdout, history, session_state, workers,
      network>>

\* what the engine's functions never touch
outside == <<session_state, workers, network>>

----------------------------------------------------------------------------
(* Bounds of the model *)

\* the number of points of PointPool the point arrays are drawn from
MaxPts == 3
\* the entries of the deformation matrices A run over 0..MaxEntry
MaxEntry == 1
\* scale_length runs over 0..MaxScaleLength
MaxScaleLength == 2
\* the lists of specimens, and of regression points, have at most
\* MaxSpecimens elements
MaxSpecimens == 3
\* a session makes at most MaxCalls calls
MaxCalls == 3

----------------------------------------------------------------------------
(* Exact rational arithmetic *)

Abs(x) == IF x < 0 THEN -x ELSE x

RECURSIVE GCD(_, _)
GCD(a, b) == IF b = 0 THEN a ELSE GCD(b, a % b)

\* the rational n/d in lowest terms with a positive denominator (d # 0)
Rat(n, d) ==
    IF d = 1 THEN <<n, 1>>
    ELSE LET g == GCD(Abs(n), Abs(d))
             s == IF d < 0 THEN -1 ELSE 1
         IN  <<(s * n) \div g, (s * d) \div g>>

Zero == <<0, 1>>
One == <<1, 1>>
Half == <<1, 2>>
FromInt(n) == <<n, 1>>

RAdd(a, b) == Rat(a[1] * b[2] + b[1] * a[2], a[2] * b[2])
RSub(a, b) == Rat(a[1] * b[2] - b[1] * a[2], a[2] * b[2])
RMul(a, b) == Rat(a[1] * b[1], a[2] * b[2])
RDiv(a, b) == Rat(a[1] * b[2], a[2] * b[1])
RSign(a) == IF a[1] > 0 THEN 1 ELSE IF a[1] < 0 THEN -1 ELSE 0

----------------------------------------------------------------------------
(* numpy arrays: an (n, 2) array is a sequence of n rows <<x, y>> *)

\* ndarray.shape of a two-dimensional array
Shape(a) == IF Len(a) = 0 THEN <<0>> ELSE <<Len(a), Len(a[1])>>

\* a - row, the row broadcast over the rows of a
SubRow(a, row) ==
    [i \in 1..Len(a) |-> <<RSub(a[i][1], row[1]), RSub(a[i][2], row[2])>>]

\* a[i] for a 0-based index i; a negative i counts from the end
Row(a, i) == IF i < 0 THEN a[Len(a) + i + 1] ELSE a[i + 1]

\* a[indices], the rows of a at the (0-based) indices, in their order
Take(a, indices) == [k \in 1..Len(indices) |-> Row(a, indices[k])]

RECURSIVE RangeExcept(_, _, _)
\* [i for i in range(lo, n) if i != skip]
RangeExcept(lo, n, skip) ==
    IF lo >= n THEN <<>>
    ELSE IF lo = skip THEN RangeExcept(lo + 1, n, skip)
    ELSE <<lo>> \o RangeExcept(lo + 1, n, skip)

RECURSIVE SumProd(_, _, _, _)
\* sum over the rows k..Len(a) of a[k][i] * b[k][j]
SumProd(a, b, i, j) ==
    IF Len(a) = 0 THEN Zero
    ELSE RAdd(RMul(a[1][i], b[1][j]), SumProd(Tail(a), Tail(b), i, j))

\* a.T @ b for two (n, 2) arrays: a 2x2 matrix
Gram(a, b) ==
    <<<<SumProd(a, b, 1, 1), SumProd(a, b, 1, 2)>>,
      <<SumProd(a, b, 2, 1), SumProd(a, b, 2, 2)>>>>

\* 2x2 matrices: <<row 1, row 2>>
Transpose(m) == <<<<m[1][1], m[2][1]>>, <<m[1][2], m[2][2]>>>>

MatMul(m, n) ==
    [i \in 1..2 |-> [j \in 1..2 |->
        RAdd(RMul(m[i][1], n[1][j]), RMul(m[i][2], n[2][j]))]]

MatAdd(m, n) == [i \in 1..2 |-> [j \in 1..2 |-> RAdd(m[i][j], n[i][j])]]
MatSub(m, n) == [i \in 1..2 |-> [j \in 1..2 |-> RSub(m[i][j], n[i][j])]]
MatScale(c, m) == [i \in 1..2 |-> [j \in 1..2 |-> RMul(c, m[i][j])]]

\* np.eye(2)
Eye2 == <<<<One, Zero>>, <<Zero, One>>>>
ZeroMatrix == <<<<Zero, Zero>>, <<Zero, Zero>>>>

Det(m) == RSub(RMul(m[1][1], m[2][2]), RMul(m[1][2], m[2][1]))
Trace(m) == RAdd(m[1][1], m[2][2])

\* np.linalg.lstsq(a, b, rcond=None) for (n, 2) arrays a and b: the
\* least-squares solution x of a @ x = b of minimum norm, and the rank of a.
\* With g = a.T @ a and h = a.T @ b: x = g^-1 @ h when a has rank 2; the
\* pseudo-inverse of a rank-1 a is a.T / trace(g), so x = h / trace(g);
\* x = 0 when a = 0.
LstsqFrom(g, h) ==
    LET det == Det(g)
        tr == Trace(g)
        adj == <<<<g[2][2], RSub(Zero, g[1][2])>>,
                 <<RSub(Zero, g[2][1]), g[1][1]>>>>
    IN  IF det # Zero
        THEN [x |-> MatScale(RDiv(One, det), MatMul(adj, h)), rank |-> 2]
        ELSE IF tr # Zero
        THEN [x |-> MatScale(RDiv(One, tr), h), rank |-> 1]
        ELSE [x |-> ZeroMatrix, rank |-> 0]

Lstsq(a, b) == LstsqFrom(Gram(a, a), Gram(a, b))

----------------------------------------------------------------------------
(* Outcomes of a call *)

Return(v) == [kind |-> "return", value |-> v, exc |-> "none"]
Raise(e) == [kind |-> "raise", value |-> <<>>, exc |-> e]
NoResult == [kind |-> "none", value |-> <<>>, exc |-> "none"]
NoLocals == [F |-> <<>>, rank |-> -1]

RankWarning == "Warning: Solution may be inaccurate due to point configuration"

\* no Streamlit session, no worker and no request: the engine called alone
NoSession == [files_data |-> <<>>, analysis_results |-> "None",
              last_scale_length |-> "unset"]
Alone == session_state = NoSession /\ workers = <<>> /\ network = <<>>

----------------------------------------------------------------------------
(* calculate_strain_tensor *)

\* StrainOf with the identity subtracted outside the halving of F.T @ F
StrainOfIdentityOutside(F, strain_type) ==
    IF strain_type = "small"
    THEN MatSub(MatScale(Half, MatAdd(F, Transpose(F))), Eye2)
    ELSE MatSub(MatScale(Half, MatMul(Transpose(F), F)), Eye2)

\* StrainOf with the small strain taken as F - I, not symmetrized
StrainOfNoSymmetry(F, strain_type) ==
    IF strain_type = "small"
    THEN MatSub(F, Eye2)
    ELSE MatScale(Half, MatSub(MatMul(Transpose(F), F), Eye2))

\* StrainOf giving the small strain whatever the strain type
StrainOfIgnoresType(F, strain_type) ==
    MatSub(MatScale(Half, MatAdd(F, Transpose(F))), Eye2)

\* StrainOf with the identity never subtracted from the small strain
StrainOfWithoutIdentity(F, strain_type) ==
    IF strain_type = "small"
    THEN MatScale(Half, MatAdd(F, Transpose(F)))
    ELSE MatScale(Half, MatSub(MatMul(Transpose(F), F), Eye2))

\* the strain tensor of the deformation gradient F
StrainOf(F, strain_type) ==
    IF strain_type = "small"
    THEN MatSub(MatScale(Half, MatAdd(F, Transpose(F))), Eye2)
    ELSE MatScale(Half, MatSub(MatMul(Transpose(F), F), Eye2))

Raised(e) == [result |-> Raise(e), locals |-> NoLocals, out |-> <<>>]

\* FitAndStrain with the solution of lstsq taken for F, not transposed
FitAndStrainNoTranspose(vectors_original, vectors_deformed, strain_type) ==
    LET fit == Lstsq(vectors_original, vectors_deformed)
        F == fit.x
    IN  [result |-> Return(StrainOf(F, strain_type)),
         locals |-> [F |-> F, rank |-> fit.rank],
         out |-> IF fit.rank < 2 THEN <<RankWarning>> ELSE <<>>]

\* FitAndStrain raising on a rank-deficient fit instead of warning
FitAndStrainRankRaises(vectors_original, vectors_deformed, strain_type) ==
    LET fit == Lstsq(vectors_original, vectors_deformed)
        F == Transpose(fit.x)
    IN  IF fit.rank < 2 THEN Raised("ValueError")
        ELSE [result |-> Return(StrainOf(F, strain_type)),
              locals |-> [F |-> F, rank |-> fit.rank],
              out |-> <<>>]

\* FitAndStrain warning only when the rank is 0, not when it is 1
FitAndStrainWarnsAtRankZero(vectors_original, vectors_deformed, strain_type) ==
    LET fit == Lstsq(vectors_original, vectors_deformed)
        F == Transpose(fit.x)
    IN  [result |-> Return(StrainOf(F, strain_type)),
         locals |-> [F |-> F, rank |-> fit.rank],
         out |-> IF fit.rank < 1 THEN <<RankWarning>> ELSE <<>>]

\* FitAndStrain keeping its fit in a variable of the module and computing
\* the tensor from the fit that the call before it left there
FitAndStrainStaleFit(vectors_original, vectors_deformed, strain_type) ==
    LET fit == Lstsq(vectors_original, vectors_deformed)
        stale == "rank" \in DOMAIN locals /\ locals.rank >= 0
        F == IF stale THEN locals.F ELSE Transpose(fit.x)
    IN  [result |-> Return(StrainOf(F, strain_type)),
         locals |-> [F |-> Transpose(fit.x), rank |-> fit.rank],
         out |-> IF fit.rank < 2 THEN <<RankWarning>> ELSE <<>>]

\* from the corner vectors on: the fit, the warning and the tensor
FitAndStrain(vectors_original, vectors_deformed, strain_type) ==
    LET fit == Lstsq(vectors_original, vectors_deformed)
        F == Transpose(fit.x)
    IN  [result |-> Return(StrainOf(F, strain_type)),
         locals |-> [F |-> F, rank |-> fit.rank],
         out |-> IF fit.rank < 2 THEN <<RankWarning>> ELSE <<>>]

\* [i for i in range(len(original_points)) if i != center_index]
CornerIndices(original_points, center_index) ==
    RangeExcept(0, Len(original_points), center_index)

\* CornerVectors without the subtraction of the center point
CornerVectorsNotCentered(points, corner_indices, center_index) ==
    Take(points, corner_indices)

\* points[corner_indices] - points[center_index]
CornerVectors(points, corner_indices, center_index) ==
    SubRow(Take(points, corner_indices), Row(points, center_index))

\* validate_points of strain_analysis_core
ValidatePoints(points, expected_shape) == Shape(points) = expected_shape

\* the check of center_index without its lower bound
CenterIndexTooLarge(original_points, center_index) ==
    center_index >= Len(original_points)

\* the check of center_index, the same in both modules
CenterIndexOutOfRange(original_points, center_index) ==
    center_index < 0 \/ center_index >= Len(original_points)

\* the body of both functions once the arguments are validated
Estimate(original_points, deformed_points, strain_type, center_index) ==
    LET corner_indices == CornerIndices(original_points, center_index)
    IN  FitAndStrain(CornerVectors(original_points, corner_indices, center_index),
                     CornerVectors(deformed_points, corner_indices, center_index),
                     strain_type)

\* the core function validating original_points twice and deformed_points
\* never; a deformed array too short for the indices raises IndexError
CoreValidatesOriginalTwice(original_points, deformed_points, strain_type, center_index) ==
    IF ~ValidatePoints(original_points, <<5, 2>>) THEN Raised("ValueError")
    ELSE IF ~ValidatePoints(original_points, <<5, 2>>) THEN Raised("ValueError")
    ELSE IF CenterIndexOutOfRange(original_points, center_index)
    THEN Raised("ValueError")
    ELSE IF Len(deformed_points) < Len(original_points) THEN Raised("IndexError")
    ELSE Estimate(original_points, deformed_points, strain_type, center_index)

\* strain_analysis_core.calculate_strain_tensor
CoreCalculateStrainTensor(original_points, deformed_points, strain_type, center_index) ==
    IF ~ValidatePoints(original_points, <<5, 2>>) THEN Raised("ValueError")
    ELSE IF ~ValidatePoints(deformed_points, <<5, 2>>) THEN Raised("ValueError")
    ELSE IF CenterIndexOutOfRange(original_points, center_index)
    THEN Raised("ValueError")
    ELSE Estimate(original_points, deformed_points, strain_type, center_index)

\* strain_analysis.calculate_strain_tensor
LegacyCalculateStrainTensor(original_points, deformed_points, strain_type, center_index) ==
    IF Shape(original_points) # Shape(deformed_points) THEN Raised("ValueError")
    ELSE IF CenterIndexOutOfRange(original_points, center_index)
    THEN Raised("ValueError")
    ELSE Estimate(original_points, deformed_points, strain_type, center_index)

----------------------------------------------------------------------------
(* float64 values that need not be rational: q * sqrt(rad) with q rational  *)
(* and rad a squarefree integer >= 1 (rad = 1 when q = 0), and the IEEE     *)
(* values inf, -inf and nan                                                 *)

Fin(q, rad) ==
    IF q = Zero THEN [k |-> "fin", q |-> Zero, rad |-> 1]
    ELSE [k |-> "fin", q |-> q, rad |-> rad]
Inf == [k |-> "inf", q |-> Zero, rad |-> 1]
NegInf == [k |-> "-inf", q |-> Zero, rad |-> 1]
NaN == [k |-> "nan", q |-> Zero, rad |-> 1]

RECURSIVE SquarePartFrom(_, _)
\* the largest k' <= k with k'^2 dividing n (n >= 1)
SquarePartFrom(n, k) ==
    IF n % (k * k) = 0 THEN k ELSE SquarePartFrom(n, k - 1)

\* the largest k with k^2 <= n
IntSqrt(n) == CHOOSE k \in 0..n : k * k <= n /\ (k + 1) * (k + 1) > n

\* the largest k with k^2 dividing n (n >= 1)
SquarePart(n) == SquarePartFrom(n, IntSqrt(n))

\* the square root of the rational r >= 0: sqrt(a/b) = sqrt(a b) / b
Sqrt(r) ==
    IF r = Zero THEN Fin(Zero, 1)
    ELSE LET n == r[1] * r[2]
             k == SquarePart(n)
         IN  Fin(Rat(k, r[2]), n \div (k * k))

\* np.linalg.norm of a vector of two rationals
Norm(v) == Sqrt(RAdd(RMul(v[1], v[1]), RMul(v[2], v[2])))

\* the float64 division of the rational x by y, a finite value
FDiv(x, y) ==
    IF y.q = Zero
    THEN IF RSign(x) > 0 THEN Inf ELSE IF RSign(x) < 0 THEN NegInf ELSE NaN
    ELSE Fin(RDiv(x, RMul(y.q, FromInt(y.rad))), y.rad)

\* the float64 product of the rational x and the value f
FMul(x, f) ==
    IF f.k = "fin" THEN Fin(RMul(x, f.q), f.rad)
    ELSE IF f.k = "nan" \/ RSign(x) = 0 THEN NaN
    ELSE IF (f.k = "inf") = (RSign(x) > 0) THEN Inf
    ELSE NegInf

----------------------------------------------------------------------------
(* normalize_points_by_scale *)

\* the scale factor with the quotient taken the wrong way round
ScaleFactorInverted(scale_length, pixel_scale) ==
    IF scale_length = Zero
    THEN IF pixel_scale.q = Zero THEN NaN ELSE Inf
    ELSE Fin(RDiv(pixel_scale.q, scale_length), pixel_scale.rad)

\* scale_factor = scale_length / pixel_scale
ScaleFactor(scale_length, pixel_scale) == FDiv(scale_length, pixel_scale)

\* the points moved by scale_points[1], not scale_points[0]
TranslateBySecond(fiducial_points, scale_points) ==
    SubRow(fiducial_points, Row(scale_points, 1))

\* fiducial_points - scale_points[0]
Translate(fiducial_points, scale_points) ==
    SubRow(fiducial_points, Row(scale_points, 0))

\* the body of both functions once the shapes are validated
Normalize(fiducial_points, scale_points, scale_length) ==
    LET d == SubRow(<<Row(scale_points, 1)>>, Row(scale_points, 0))[1]
        pixel_scale == Norm(d)
        scale_factor == ScaleFactor(scale_length, pixel_scale)
        moved == Translate(fiducial_points, scale_points)
    IN  [result |-> Return([i \in 1..Len(moved) |->
                        <<FMul(moved[i][1], scale_factor),
                          FMul(moved[i][2], scale_factor)>>]),
         locals |-> [pixel_scale |-> pixel_scale, scale_factor |-> scale_factor],
         out |-> <<>>]

\* the core function checking the shape of fiducial_points alone; a scale
\* array with no second point raises IndexError
CoreNormalizeOneCheck(fiducial_points, scale_points, scale_length) ==
    IF ~ValidatePoints(fiducial_points, <<5, 2>>) THEN Raised("ValueError")
    ELSE IF Len(scale_points) < 2 THEN Raised("IndexError")
    ELSE Normalize(fiducial_points, scale_points, scale_length)

\* strain_analysis_core.normalize_points_by_scale
CoreNormalizePointsByScale(fiducial_points, scale_points, scale_length) ==
    IF ~ValidatePoints(fiducial_points, <<5, 2>>) THEN Raised("ValueError")
    ELSE IF ~ValidatePoints(scale_points, <<2, 2>>) THEN Raised("ValueError")
    ELSE Normalize(fiducial_points, scale_points, scale_length)

\* strain_analysis.normalize_points_by_scale
LegacyNormalizePointsByScale(fiducial_points, scale_points, scale_length) ==
    IF Shape(fiducial_points) # <<5, 2>> THEN Raised("ValueError")
    ELSE IF Shape(scale_points) # <<2, 2>> THEN Raised("ValueError")
    ELSE Normalize(fiducial_points, scale_points, scale_length)

----------------------------------------------------------------------------
(* calculate_strain_tensor on arrays of float64 values: the arrays that      *)
(* normalize_points_by_scale returns.  The finite values of one such array   *)
(* are rational multiples of one square root, so that their differences are  *)
(* again such values and their products are rational.                        *)

\* np.asarray(points, dtype=float) of exact points
AsFloats(points) ==
    [i \in 1..Len(points) |-> [j \in 1..Len(points[i]) |-> Fin(points[i][j], 1)]]

Finite(points) ==
    \A i \in 1..Len(points) : \A j \in 1..Len(points[i]) : points[i][j].k = "fin"

\* x - y for two finite values over the same square root
FSub(x, y) == Fin(RSub(x.q, y.q), IF x.q = Zero THEN y.rad ELSE x.rad)

\* x * y for two finite values over the same square root: a rational
FProd(x, y) == RMul(RMul(x.q, y.q), FromInt(x.rad))

\* points[corner_indices] - points[center_index]
FloatCornerVectors(points, corner_indices, center_index) ==
    LET rows == Take(points, corner_indices)
        center == Row(points, center_index)
    IN  [i \in 1..Len(rows) |->
            [j \in 1..Len(rows[i]) |-> FSub(rows[i][j], center[j])]]

RECURSIVE FloatSumProd(_, _, _, _)
FloatSumProd(a, b, i, j) ==
    IF Len(a) = 0 THEN Zero
    ELSE RAdd(FProd(a[1][i], b[1][j]), FloatSumProd(Tail(a), Tail(b), i, j))

\* a.T @ b
FloatGram(a, b) ==
    <<<<FloatSumProd(a, b, 1, 1), FloatSumProd(a, b, 1, 2)>>,
      <<FloatSumProd(a, b, 2, 1), FloatSumProd(a, b, 2, 2)>>>>

\* from the corner vectors on; np.linalg.lstsq raises LinAlgError, a
\* ValueError, when its SVD meets inf or nan
FloatEstimate(original_points, deformed_points, strain_type, center_index) ==
    IF ~Finite(original_points) \/ ~Finite(deformed_points)
    THEN Raised("LinAlgError")
    ELSE LET corner_indices == CornerIndices(original_points, center_index)
             vectors_original ==
                 FloatCornerVectors(original_points, corner_indices, center_index)
             vectors_deformed ==
                 FloatCornerVectors(deformed_points, corner_indices, center_index)
             fit == LstsqFrom(FloatGram(vectors_original, vectors_original),
                              FloatGram(vectors_original, vectors_deformed))
             F == Transpose(fit.x)
         IN  [result |-> Return(StrainOf(F, strain_type)),
              locals |-> [F |-> F, rank |-> fit.rank],
              out |-> IF fit.rank < 2 THEN <<RankWarning>> ELSE <<>>]

\* calculate_strain_tensor of the module, on arrays of float64 values
FloatCalculateStrainTensor(module, original_points, deformed_points, strain_type, center_index) ==
    IF module = "core" /\ (~ValidatePoints(original_points, <<5, 2>>)
                           \/ ~ValidatePoints(deformed_points, <<5, 2>>))
    THEN Raised("ValueError")
    ELSE IF module = "legacy" /\ Shape(original_points) # Shape(deformed_points)
    THEN Raised("ValueError")
    ELSE IF CenterIndexOutOfRange(original_points, center_index)
    THEN Raised("ValueError")
    ELSE FloatEstimate(original_points, deformed_points, strain_type, center_index)

\* normalize_points_by_scale of the module
NormalizePointsByScale(module, fiducial_points, scale_points, scale_length) ==
    IF module = "core"
    THEN CoreNormalizePointsByScale(fiducial_points, scale_points, scale_length)
    ELSE LegacyNormalizePointsByScale(fiducial_points, scale_points, scale_length)

----------------------------------------------------------------------------
(* The inputs of calculate_strain_tensor *)

PointPool ==
    <<<<Zero, Zero>>, <<One, Zero>>, <<Zero, One>>, <<One, One>>,
      <<FromInt(2), One>>, <<One, FromInt(2)>>>>

Pts == {PointPool[i] : i \in 1..MaxPts}

\* the (n, 2) arrays over the pool
Arrays(n) == [1..n -> Pts]

\* the point set of src/tests/test_strain_analysis.py: the unit square, then
\* its center
UnitSquare ==
    <<<<Zero, Zero>>, <<One, Zero>>, <<One, One>>, <<Zero, One>>, <<Half, Half>>>>

Originals == Arrays(5) \cup {UnitSquare}

\* a quadrilateral with no symmetry, then a point inside it
SkewQuad ==
    <<<<Zero, Zero>>, <<FromInt(2), Zero>>, <<FromInt(3), FromInt(2)>>,
      <<Zero, One>>, <<One, One>>>>

Identity == <<<<One, Zero>>, <<Zero, One>>>>
\* a simple shear: not symmetric
Shear == <<<<One, One>>, <<Zero, One>>>>
\* the 20% extension in x of the test
StretchX == <<<<Rat(6, 5), Zero>>, <<Zero, One>>>>
\* a quarter turn
Rot90 == <<<<Zero, FromInt(-1)>>, <<One, Zero>>>>

KeyMats == {Identity, Shear, StretchX, Rot90}

Mats ==
    {<<<<FromInt(a), FromInt(b)>>, <<FromInt(c), FromInt(d)>>>> :
        a \in 0..MaxEntry, b \in 0..MaxEntry, c \in 0..MaxEntry, d \in 0..MaxEntry}
    \cup KeyMats

\* the matrix A applied to the vector v
Apply(A, v) ==
    <<RAdd(RMul(A[1][1], v[1]), RMul(A[1][2], v[2])),
      RAdd(RMul(A[2][1], v[1]), RMul(A[2][2], v[2]))>>

\* every point p of the array moved to A p + t
Affine(A, t, points) ==
    [i \in 1..Len(points) |->
        LET q == Apply(A, points[i]) IN <<RAdd(q[1], t[1]), RAdd(q[2], t[2])>>]

\* the array with its first point moved one unit in y
Bend(points) ==
    [i \in 1..Len(points) |->
        IF i = 1 THEN <<points[i][1], RAdd(points[i][2], One)>> ELSE points[i]]

Shift == <<One, FromInt(2)>>
NoShift == <<Zero, Zero>>

\* what happens to the specimen besides the linear map: nothing, a
\* translation, or one marker moving on its own
Distort(how, points) ==
    IF how = "shift" THEN Affine(Identity, Shift, points)
    ELSE IF how = "bend" THEN Bend(points)
    ELSE points

StrainTypes == {"small", "green_lagrangian"}

\* the test's points with a third coordinate: an array of shape (5, 3)
ThreeColumns == [i \in 1..5 |-> Append(UnitSquare[i], Zero)]

StrainCall(o, d, st, ci) ==
    [fn |-> "calculate_strain_tensor", original_points |-> o,
     deformed_points |-> d, strain_type |-> st, center_index |-> ci]

\* every array over the pool, deformed by the key matrices
PoolCalls ==
    {StrainCall(o, Affine(A, NoShift, o), st, ci) :
        o \in Originals, A \in KeyMats, st \in StrainTypes, ci \in 0..4}

\* two regular specimens, deformed by every matrix, then shifted or bent
FixtureCalls ==
    {StrainCall(o, Distort(how, Affine(A, NoShift, o)), st, ci) :
        o \in {UnitSquare, SkewQuad}, A \in Mats,
        how \in {"none", "shift", "bend"}, st \in StrainTypes, ci \in 0..4}

\* calls with a center_index out of range, arrays of 4 or 6 points, or
\* points of three coordinates against points of two
OddCalls ==
    {StrainCall(o, d, st, ci) :
        o \in {UnitSquare, SubSeq(UnitSquare, 1, 4),
               Append(UnitSquare, <<One, FromInt(2)>>), ThreeColumns},
        d \in {Affine(StretchX, NoShift, UnitSquare),
               SubSeq(UnitSquare, 1, 4),
               Append(UnitSquare, <<FromInt(2), One>>)},
        st \in StrainTypes, ci \in (-2)..7}

\* the factors of the uniform scalings
Scalings == {Half, FromInt(2)}

\* every point p of the array moved to c + s (p - c), c the center point
ScaleAbout(points, center_index, s) ==
    LET c == points[center_index + 1]
    IN  [i \in 1..Len(points) |->
            <<RAdd(c[1], RMul(s, RSub(points[i][1], c[1]))),
              RAdd(c[2], RMul(s, RSub(points[i][2], c[2])))>>]

\* every array over the pool, scaled uniformly about its center point
ScaledCalls ==
    {StrainCall(o, ScaleAbout(o, ci, s), "small", ci) :
        o \in Originals, s \in Scalings, ci \in 0..4}

StrainCalls == PoolCalls \cup FixtureCalls \cup OddCalls

----------------------------------------------------------------------------
(* The calls of calculate_strain_tensor *)

InitStrain ==
    /\ \/ call \in StrainCalls
       \/ call \in ScaledCalls
    /\ impl = "none"
    /\ pc = "ready"
    /\ result = NoResult
    /\ locals = NoLocals
    /\ stdout = <<>>
    /\ history = <<>>
    /\ Alone

\* one entry of history
Made(c, module, outcome) == [call |-> c, impl |-> module, result |-> outcome]

Finish(module, r) ==
    \E done \in {r} :
        /\ pc' = "done"
        /\ impl' = module
        /\ result' = done.result
        /\ locals' = done.locals
        /\ stdout' = stdout \o done.out
        /\ history' = Append(history, Made(call, module, done.result))
        /\ UNCHANGED <<call, outside>>

CoreStrain ==
    /\ pc = "ready"
    /\ call.fn = "calculate_strain_tensor"
    /\ Finish("core", CoreCalculateStrainTensor(call.original_points,
                  call.deformed_points, call.strain_type, call.center_index))

LegacyStrain ==
    /\ pc = "ready"
    /\ call.fn = "calculate_strain_tensor"
    /\ Finish("legacy", LegacyCalculateStrainTensor(call.original_points,
                  call.deformed_points, call.strain_type, call.center_index))

NextStrain == CoreStrain \/ LegacyStrain

SpecStrain == InitStrain /\ [][NextStrain]_vars

----------------------------------------------------------------------------
(* The inputs and the calls of normalize_points_by_scale *)

NormalizeCall(f, sp, len) ==
    [fn |-> "normalize_points_by_scale", fiducial_points |-> f,
     scale_points |-> sp, scale_length |-> len]

ScaleLengths == {FromInt(n) : n \in 0..MaxScaleLength} \cup {Half}

\* the two scale segments and the scale length of the test
TestScale1 == <<<<Zero, Zero>>, <<One, Zero>>>>
TestScale2 == <<<<One, One>>, <<FromInt(2), One>>>>
TestScaleLength == FromInt(10)

\* every fiducial array and every scale segment over the pool, the two
\* points of the segment coinciding or not
PoolNormalizeCalls ==
    {NormalizeCall(f, sp, len) :
        f \in Originals, sp \in Arrays(2), len \in ScaleLengths}

TestNormalizeCalls ==
    {NormalizeCall(f, sp, TestScaleLength) :
        f \in {UnitSquare, SkewQuad}, sp \in {TestScale1, TestScale2}}

\* arrays of 4 or 6 fiducial points or of points of three coordinates,
\* arrays of 1 or 3 scale points
OddNormalizeCalls ==
    {NormalizeCall(f, sp, len) :
        f \in {UnitSquare, SubSeq(UnitSquare, 1, 4),
               Append(UnitSquare, <<One, FromInt(2)>>), ThreeColumns},
        sp \in {TestScale1, <<<<Zero, Zero>>>>, <<<<Zero, Zero>>, <<Zero, Zero>>>>,
                Append(TestScale1, <<One, One>>)},
        len \in ScaleLengths}

NormalizeCalls == PoolNormalizeCalls \cup TestNormalizeCalls \cup OddNormalizeCalls

InitNormalize ==
    /\ call \in NormalizeCalls
    /\ impl = "none"
    /\ pc = "ready"
    /\ result = NoResult
    /\ locals = NoLocals
    /\ stdout = <<>>
    /\ history = <<>>
    /\ Alone

CoreNormalize ==
    /\ pc = "ready"
    /\ call.fn = "normalize_points_by_scale"
    /\ Finish("core", CoreNormalizePointsByScale(call.fiducial_points,
                  call.scale_points, call.scale_length))

LegacyNormalize ==
    /\ pc = "ready"
    /\ call.fn = "normalize_points_by_scale"
    /\ Finish("legacy", LegacyNormalizePointsByScale(call.fiducial_points,
                  call.scale_points, call.scale_length))

NextNormalize == CoreNormalize \/ LegacyNormalize

SpecNormalize == InitNormalize /\ [][NextNormalize]_vars

----------------------------------------------------------------------------
(* The extension scenario: the points of a specimen, normalized by a scale   *)
(* segment or taken as they are, are copied; the x-coordinates of the copy   *)
(* are multiplied by k; calculate_strain_tensor compares the two arrays      *)
(* (src/tests/test_strain_analysis.py, test cases 1 and 2 of both tests)     *)

ExtensionCall(f, normalize, sp, len, k) ==
    [fn |-> "extension", fiducial_points |-> f, normalize |-> normalize,
     scale_points |-> sp, scale_length |-> len, k |-> k]

\* the factors of the extension: the 1.2 of the test, and 2
Extensions == {Rat(6, 5), FromInt(2)}

\* a scale segment along the diagonal, of length sqrt(2)
DiagonalScale == <<<<Zero, Zero>>, <<One, One>>>>
\* a scale segment of two coinciding points
PointScale == <<<<Zero, Zero>>, <<Zero, Zero>>>>

ExtensionCalls ==
    {ExtensionCall(f, FALSE, TestScale1, TestScaleLength, k) :
        f \in Originals \cup {SkewQuad}, k \in Extensions}
    \cup
    {ExtensionCall(f, TRUE, sp, TestScaleLength, k) :
        f \in Originals \cup {SkewQuad},
        sp \in {TestScale1, TestScale2, DiagonalScale, PointScale},
        k \in Extensions}

InitExtension ==
    /\ call \in ExtensionCalls
    /\ impl = "none"
    /\ pc = "ready"
    /\ result = NoResult
    /\ locals = NoLocals
    /\ stdout = <<>>
    /\ history = <<>>
    /\ Alone

\* normalized = normalize_points_by_scale(fiducial_points, scale_points,
\*                                        scale_length)
ExtensionNormalize ==
    /\ pc = "ready"
    /\ call.fn = "extension"
    /\ call.normalize
    /\ \E module \in {"core", "legacy"} :
       \E r \in {NormalizePointsByScale(module, call.fiducial_points,
                                         call.scale_points, call.scale_length)} :
          /\ pc' = "normalized"
          /\ impl' = module
          /\ result' = r.result
          /\ locals' = r.locals
          /\ stdout' = stdout \o r.out
          /\ history' = Append(history, Made(call, module, r.result))
    /\ UNCHANGED <<call, outside>>

\* deformed = original.copy(); deformed[:, 0] *= k
Extended(original, k) ==
    [i \in 1..Len(original) |-> <<FMul(k, original[i][1]), original[i][2]>>]

\* strain = calculate_strain_tensor(original, deformed)
ExtensionStrain ==
    /\ call.fn = "extension"
    /\ \/ pc = "ready" /\ ~call.normalize
       \/ pc = "normalized" /\ result.kind = "return"
    /\ \E module \in {"core", "legacy"} :
       \E original \in {IF call.normalize THEN result.value
                         ELSE AsFloats(call.fiducial_points)} :
       \E deformed \in {Extended(original, call.k)} :
       \E r \in {FloatCalculateStrainTensor(module, original, deformed,
                                             "small", 4)} :
          /\ pc' = "done"
          /\ impl' = module
          /\ result' = r.result
          /\ locals' = [F |-> r.locals.F, rank |-> r.locals.rank,
                        original_points |-> original,
                        deformed_points |-> deformed]
          /\ stdout' = stdout \o r.out
          /\ history' = Append(history, Made(call, module, r.result))
    /\ UNCHANGED <<call, outside>>

NextExtension == ExtensionNormalize \/ ExtensionStrain

SpecExtension == InitExtension /\ [][NextExtension]_vars

----------------------------------------------------------------------------
(* strain_analysis_data: calculate_regression and analyze_strain_data.       *)
(* scipy.stats.linregress is modelled by what it computes: it raises on      *)
(* empty input and on two or more x values that are all identical; on one    *)
(* point it divides 0.0 by 0.0 and returns nan.  A p-value is kept as the    *)
(* degrees of freedom and r^2 it is computed from, not as a number.          *)

RLess(a, b) == a[1] * b[2] < b[1] * a[2]

RECURSIVE Sum(_)
Sum(values) ==
    IF Len(values) = 0 THEN Zero ELSE RAdd(values[1], Sum(Tail(values)))

\* np.mean
Mean(values) == RDiv(Sum(values), FromInt(Len(values)))

\* an entry of np.cov(x, y, bias=1): the mean product of the deviations
Cov(x, y) ==
    LET xmean == Mean(x)
        ymean == Mean(y)
    IN  Mean([i \in 1..Len(x) |-> RMul(RSub(x[i], xmean), RSub(y[i], ymean))])

\* p-values: 0.0, 1.0, nan, or the two-sided p-value of Student's t with df
\* degrees of freedom for a correlation of square rsq
PValue(k, df, rsq) == [k |-> k, df |-> df, rsq |-> rsq]
PZero == PValue("0.0", 0, Zero)
POne == PValue("1.0", 0, Zero)
PNaN == PValue("nan", 0, Zero)

\* t = r * sqrt(df / ((1 - r + TINY) * (1 + r + TINY))) and its p-value;
\* t = 0 has the p-value 1.0
TTest(df, r) ==
    IF r.q = Zero THEN POne ELSE PValue("t", df, FProd(r, r))

\* scipy.stats.linregress(x, y): slope, intercept, rvalue, pvalue
Linregress(x, y) ==
    IF Len(x) = 0 THEN Raise("ValueError")
    ELSE IF Len(x) > 1 /\ \A i \in 1..Len(x) : x[i] = x[1]
    THEN Raise("ValueError")
    ELSE LET n == Len(x)
             ssxm == Cov(x, x)
             ssxym == Cov(x, y)
             ssym == Cov(y, y)
             r == IF ssxm = Zero \/ ssym = Zero THEN Fin(Zero, 1)
                  ELSE FDiv(ssxym, Sqrt(RMul(ssxm, ssym)))
             slope == FDiv(ssxym, Fin(ssxm, 1))
             intercept == IF slope.k = "fin"
                          THEN Fin(RSub(Mean(y), RMul(slope.q, Mean(x))), 1)
                          ELSE NaN
             prob == IF n = 2 THEN (IF y[1] = y[2] THEN POne ELSE PZero)
                     ELSE IF n = 1 THEN PNaN
                     ELSE TTest(n - 2, r)
         IN  Return([slope |-> slope, intercept |-> intercept,
                     rvalue |-> r, pvalue |-> prob])

\* the outcome of a function of strain_analysis_data: what it returns or
\* raises, and its arguments as the call leaves them
DataOutcome(outcome, arguments) ==
    [result |-> outcome, locals |-> arguments, out |-> <<>>]

\* calculate_regression with x and y handed to linregress in the wrong order
CalculateRegressionSwapped(x_values, y_values) ==
    LET fit == Linregress(y_values, x_values)
        arguments == [x_values |-> x_values, y_values |-> y_values]
    IN  IF fit.kind = "raise" THEN DataOutcome(fit, arguments)
        ELSE DataOutcome(
                 Return([slope |-> fit.value.slope,
                         intercept |-> fit.value.intercept,
                         r_squared |-> Fin(FProd(fit.value.rvalue, fit.value.rvalue), 1),
                         p_value |-> fit.value.pvalue]),
                 arguments)

\* calculate_regression
CalculateRegression(x_values, y_values) ==
    LET fit == Linregress(x_values, y_values)
        arguments == [x_values |-> x_values, y_values |-> y_values]
    IN  IF fit.kind = "raise" THEN DataOutcome(fit, arguments)
        ELSE DataOutcome(
                 Return([slope |-> fit.value.slope,
                         intercept |-> fit.value.intercept,
                         r_squared |-> Fin(FProd(fit.value.rvalue, fit.value.rvalue), 1),
                         p_value |-> fit.value.pvalue]),
                 arguments)

\* strain_components with the two axes taken for each other
StrainComponentAxesSwapped(name) ==
    IF name = "x_axis" THEN <<1, 1>>
    ELSE IF name = "y_axis" THEN <<0, 0>>
    ELSE <<0, 1>>

\* strain_components: the indices of the tensor entry of each component
StrainComponent(name) ==
    IF name = "x_axis" THEN <<0, 0>>
    ELSE IF name = "y_axis" THEN <<1, 1>>
    ELSE <<0, 1>>

ComponentNames == {"x_axis", "y_axis", "shear"}

\* [d["deformation_distance"] for d in strain_data]
XValues(strain_data) ==
    [i \in 1..Len(strain_data) |-> strain_data[i].deformation_distance]

\* [d["strain_tensor"][i, j] for d in strain_data]
ComponentValues(strain_data, name) ==
    [i \in 1..Len(strain_data) |->
        strain_data[i].strain_tensor[StrainComponent(name)[1] + 1]
                                    [StrainComponent(name)[2] + 1]]

\* the outcome of analyze_strain_data from those of its three regressions,
\* which raise together or not at all
Analysis(fits, strain_data, scale_length) ==
    IF fits["x_axis"].result.kind = "raise"
    THEN DataOutcome(fits["x_axis"].result,
                     [strain_data |-> strain_data, scale_length |-> scale_length])
    ELSE DataOutcome(
             Return([strain_data |-> strain_data,
                     scale_length |-> scale_length,
                     regression_results |->
                         [name \in ComponentNames |-> fits[name].result.value]]),
             [strain_data |-> strain_data, scale_length |-> scale_length])

\* analyze_strain_data reversing the list it was given, in place
AnalyzeStrainDataReversesInput(strain_data, scale_length) ==
    LET x_values == XValues(strain_data)
        reversed == [i \in 1..Len(strain_data) |->
                        strain_data[Len(strain_data) + 1 - i]]
    IN  \* the one value of the set: the regressions are computed once
        CHOOSE outcome \in
            {Analysis(fits, reversed, scale_length) :
                fits \in {[name \in ComponentNames |->
                    CalculateRegression(x_values,
                        ComponentValues(strain_data, name))]}} : TRUE

\* analyze_strain_data; the results hold the list they were given, not a copy
AnalyzeStrainData(strain_data, scale_length) ==
    LET x_values == XValues(strain_data)
    IN  \* the one value of the set: the regressions are computed once
        CHOOSE outcome \in
            {Analysis(fits, strain_data, scale_length) :
                fits \in {[name \in ComponentNames |->
                    CalculateRegression(x_values,
                        ComponentValues(strain_data, name))]}} : TRUE

----------------------------------------------------------------------------
(* The inputs and the calls of strain_analysis_data *)

\* the deformation distances, and the x and y values of a regression
Distances == {Zero, One, FromInt(2)}

\* strain tensors whose entries tell the components apart; the second is
\* not symmetric
SampleTensors ==
    {<<<<One, Zero>>, <<Zero, Zero>>>>,
     <<<<Zero, FromInt(2)>>, <<One, Zero>>>>,
     <<<<Zero, One>>, <<One, FromInt(2)>>>>}

\* a StrainData record; the analysis does not read its filename
Specimen(distance, tensor) ==
    [deformation_distance |-> distance, strain_tensor |-> tensor]

Specimens == {Specimen(d, t) : d \in Distances, t \in SampleTensors}

\* the sequences over S of at most n elements
SeqsUpTo(S, n) == UNION {[1..k -> S] : k \in 0..n}

AnalyzeCall(strain_data, scale_length) ==
    [fn |-> "analyze_strain_data", strain_data |-> strain_data,
     scale_length |-> scale_length]

RegressionCall(x_values, y_values) ==
    [fn |-> "calculate_regression", x_values |-> x_values, y_values |-> y_values]

\* the two specimens of test_analyze_strain_data
TestStrainData ==
    <<Specimen(Zero, ZeroMatrix),
      Specimen(One, <<<<Rat(1, 10), Rat(1, 20)>>, <<Rat(1, 20), Rat(1, 10)>>>>)>>

\* the points of test_calculate_regression: y = 2 x for x = 0..4
TestXValues == [i \in 1..5 |-> FromInt(i - 1)]
TestYValues == [i \in 1..5 |-> FromInt(2 * (i - 1))]

AnalyzeCalls ==
    {AnalyzeCall(strain_data, TestScaleLength) :
        strain_data \in SeqsUpTo(Specimens, MaxSpecimens) \cup {TestStrainData}}

RegressionCalls ==
    {RegressionCall(x, y) :
        <<x, y>> \in UNION {[1..k -> Distances] \X [1..k -> Distances] :
                                k \in 0..MaxSpecimens}}
    \cup {RegressionCall(TestXValues, TestYValues)}

InitAnalysis ==
    /\ call \in AnalyzeCalls \cup RegressionCalls
    /\ impl = "none"
    /\ pc = "ready"
    /\ result = NoResult
    /\ locals = NoLocals
    /\ stdout = <<>>
    /\ history = <<>>
    /\ Alone

Analyze ==
    /\ pc = "ready"
    /\ call.fn = "analyze_strain_data"
    /\ Finish("data", AnalyzeStrainData(call.strain_data, call.scale_length))

Regress ==
    /\ pc = "ready"
    /\ call.fn = "calculate_regression"
    /\ Finish("data", CalculateRegression(call.x_values, call.y_values))

NextAnalysis == Analyze \/ Regress

SpecAnalysis == InitAnalysis /\ [][NextAnalysis]_vars

----------------------------------------------------------------------------
(* Every call of the engine *)

Init == InitStrain \/ InitNormalize \/ InitExtension \/ InitAnalysis

Next ==
    \/ CoreStrain \/ LegacyStrain \/ CoreNormalize \/ LegacyNormalize
    \/ ExtensionNormalize \/ ExtensionStrain
    \/ Analyze \/ Regress

Spec == Init /\ [][Next]_vars

----------------------------------------------------------------------------
(* Sessions: one process calling the functions one after the other.  What    *)
(* a call left behind (its outcome, its locals, the lines printed) is still  *)
(* there when the next call starts.                                          *)

\* five coinciding points: a fit of rank 0, which prints the warning
FivePoints == [i \in 1..5 |-> <<One, One>>]

SessionCalls ==
    {StrainCall(UnitSquare, Affine(StretchX, NoShift, UnitSquare), "small", 4),
     StrainCall(FivePoints, FivePoints, "small", 4),
     StrainCall(UnitSquare, UnitSquare, "green_lagrangian", 5),
     NormalizeCall(UnitSquare, TestScale1, TestScaleLength),
     RegressionCall(TestXValues, TestYValues),
     AnalyzeCall(TestStrainData, TestScaleLength)}

InitSession ==
    /\ call \in SessionCalls
    /\ impl = "none"
    /\ pc = "ready"
    /\ result = NoResult
    /\ locals = NoLocals
    /\ stdout = <<>>
    /\ history = <<>>
    /\ Alone

\* the process goes on to its next call
NextCall ==
    /\ pc = "done"
    /\ Len(history) < MaxCalls
    /\ call' \in SessionCalls
    /\ pc' = "ready"
    /\ UNCHANGED <<impl, result, locals, stdout, history, outside>>

NextSession ==
    \/ CoreStrain \/ LegacyStrain \/ CoreNormalize \/ LegacyNormalize
    \/ Analyze \/ Regress
    \/ NextCall

SpecSession == InitSession /\ [][NextSession]_vars

----------------------------------------------------------------------------
(* Properties of calculate_strain_tensor, checked under SpecStrain *)

StrainDone == pc = "done" /\ call.fn = "calculate_strain_tensor"

\* both arrays have the documented shape and center_index is in range
WellFormed ==
    /\ Shape(call.original_points) = <<5, 2>>
    /\ Shape(call.deformed_points) = <<5, 2>>
    /\ call.center_index \in 0..4

\* the call passes the validation of the module that ran it
PassesValidation ==
    IF impl = "core" THEN WellFormed
    ELSE /\ Shape(call.original_points) = Shape(call.deformed_points)
         /\ call.center_index \in 0..(Len(call.original_points) - 1)

\* the indices of the points other than the center, 1-based
Corners == (1..Len(call.original_points)) \ {call.center_index + 1}

Minus(p, q) == <<RSub(p[1], q[1]), RSub(p[2], q[2])>>

\* the vector from the center to point k, before and after deformation
VecOriginal(k) ==
    Minus(call.original_points[k], call.original_points[call.center_index + 1])
VecDeformed(k) ==
    Minus(call.deformed_points[k], call.deformed_points[call.center_index + 1])

Cross(u, v) == RSub(RMul(u[1], v[2]), RMul(u[2], v[1]))

\* the rank of the original corner-minus-center vectors
OriginalRank ==
    IF \E j \in Corners, k \in Corners : Cross(VecOriginal(j), VecOriginal(k)) # Zero
    THEN 2
    ELSE IF \E k \in Corners : VecOriginal(k) # <<Zero, Zero>> THEN 1
    ELSE 0

\* the corner vectors, by the index of their point
VecsOriginal == [k \in Corners |-> VecOriginal(k)]
VecsDeformed == [k \in Corners |-> VecDeformed(k)]

\* the deformed corner vectors vd are the images under A of the original vo
Maps(A, vo, vd) == \A k \in DOMAIN vo : vd[k] = Apply(A, vo[k])

\* the deformed corner vectors are the images under A of the original ones
DeformedBy(A) == Maps(A, VecsOriginal, VecsDeformed)

\* the rows of the matrices of Mats
MatRows == {A[i] : A \in Mats, i \in 1..2}

\* the rows r with vd[k][i] = r . vo[k] for every corner k: A maps vo to vd
\* exactly when A[1] is such a row for i = 1 and A[2] for i = 2
RowsMapping(i, vo, vd) ==
    {r \in MatRows :
        \A k \in DOMAIN vo :
            vd[k][i] = RAdd(RMul(r[1], vo[k][1]), RMul(r[2], vo[k][2]))}

\* 0.5 * (A + A^T) - I, entry by entry
SmallStrainOf(A) ==
    LET shear == RMul(Half, RAdd(A[1][2], A[2][1]))
    IN  <<<<RSub(A[1][1], One), shear>>, <<shear, RSub(A[2][2], One)>>>>

\* 0.5 * (A^T A - I), entry by entry
GreenStrainOf(A) ==
    LET xx == RAdd(RMul(A[1][1], A[1][1]), RMul(A[2][1], A[2][1]))
        yy == RAdd(RMul(A[1][2], A[1][2]), RMul(A[2][2], A[2][2]))
        xy == RAdd(RMul(A[1][1], A[1][2]), RMul(A[2][1], A[2][2]))
    IN  <<<<RMul(Half, RSub(xx, One)), RMul(Half, xy)>>,
          <<RMul(Half, xy), RMul(Half, RSub(yy, One))>>>>

ExpectedStrain(A, strain_type) ==
    IF strain_type = "small" THEN SmallStrainOf(A) ELSE GreenStrainOf(A)

\* C1: when the original corner-minus-center vectors have rank 2 and every
\* deformed corner vector is A applied to the original one, the function
\* fits F = A and returns 0.5 (A + A^T) - I for "small" and
\* 0.5 (A^T A - I) for "green_lagrangian".
C1_AffineFitRecoversA ==
    (StrainDone /\ WellFormed /\ OriginalRank = 2) =>
        \A vo \in {VecsOriginal}, vd \in {VecsDeformed} :
            \A first \in {RowsMapping(1, vo, vd)}, second \in {RowsMapping(2, vo, vd)} :
            \A A \in Mats :
                (A[1] \in first /\ A[2] \in second) =>
                    /\ result.kind = "return"
                    /\ locals.F = A
                    /\ result.value = ExpectedStrain(A, call.strain_type)

\* C1 witness: a rank-2 specimen sheared, fitted with F = Shear, Green strain
C1_Witness ==
    /\ StrainDone /\ WellFormed /\ OriginalRank = 2
    /\ call.original_points = SkewQuad
    /\ DeformedBy(Shear)
    /\ call.strain_type = "green_lagrangian"
    /\ locals.F = Shear
    /\ result.value = GreenStrainOf(Shear)

\* C2 as stated: identical original and deformed points give the zero
\* tensor, for both strain types, every center_index in 0..4 and every
\* 5-point set.
C2_IdenticalGivesZero ==
    (StrainDone /\ WellFormed /\ call.deformed_points = call.original_points) =>
        (result.kind = "return" /\ result.value = ZeroMatrix)

\* C2 amended: identical original and deformed points give the zero tensor,
\* for both strain types and every center_index in 0..4, when the original
\* corner-minus-center vectors have rank 2.
C2_IdenticalGivesZeroAtFullRank ==
    (StrainDone /\ WellFormed /\ call.deformed_points = call.original_points
        /\ OriginalRank = 2) =>
        (result.kind = "return" /\ result.value = ZeroMatrix)

\* C2 witness: the test's point set against itself, center_index 0, Green
C2_Witness ==
    /\ StrainDone /\ impl = "core"
    /\ call.original_points = UnitSquare
    /\ call.deformed_points = UnitSquare
    /\ call.center_index = 0
    /\ call.strain_type = "green_lagrangian"
    /\ OriginalRank = 2
    /\ result.value = ZeroMatrix

\* C7: arrays of different shapes make the function raise, and nothing is
\* fitted or printed before it does.
C7_ShapeMismatchRaises ==
    (StrainDone /\ Shape(call.original_points) # Shape(call.deformed_points)) =>
        /\ result.kind = "raise"
        /\ result.exc = "ValueError"
        /\ locals = NoLocals
        /\ stdout = <<>>

\* C7 witness: 5 original points against 4 deformed points
C7_Witness ==
    /\ StrainDone
    /\ Len(call.original_points) = 5
    /\ Len(call.deformed_points) = 4
    /\ call.center_index = 4
    /\ result.kind = "raise"

C9_TensorSymmetric ==
    (StrainDone /\ PassesValidation) =>
        /\ result.kind = "return"
        /\ result.value[1][2] = result.value[2][1]

\* C9 witness: a rank-deficient fit whose F is not symmetric
C9_Witness ==
    /\ StrainDone /\ PassesValidation
    /\ locals.rank < 2
    /\ locals.F[1][2] # locals.F[2][1]
    /\ call.strain_type = "small"
    /\ result.value[1][2] = result.value[2][1]

\* C10: when the original corner-minus-center vectors have rank below 2 the
\* function does not raise: it returns a 2x2 tensor and prints the warning.
C10_RankDeficientWarns ==
    (StrainDone /\ PassesValidation /\ OriginalRank < 2) =>
        /\ result.kind = "return"
        /\ Shape(result.value) = <<2, 2>>
        /\ locals.rank = OriginalRank
        /\ stdout = <<RankWarning>>

\* C10 witness: all five points coincide
C10_Witness ==
    /\ StrainDone /\ PassesValidation
    /\ OriginalRank = 0
    /\ result.kind = "return"
    /\ stdout = <<RankWarning>>

\* the objects the return statement hands to the caller, in order: the
\* function returns one object, the strain tensor
Returned == IF result.kind = "return" THEN <<result.value>> ELSE <<>>

C12_NoSideEffects ==
    [][call' = call /\ stdout' = stdout]_vars

\* the deformed points are the original ones scaled by s about the center
ScaledAboutCenter(s) ==
    /\ call.deformed_points[call.center_index + 1]
           = call.original_points[call.center_index + 1]
    /\ DeformedBy(<<<<s, Zero>>, <<Zero, s>>>>)

\* the tensor with s - 1 on the diagonal and no shear
Isotropic(s) == <<<<RSub(s, One), Zero>>, <<Zero, RSub(s, One)>>>>

\* C13 as stated: whenever every deformed point is the original point scaled
\* by s about the center point, the small-strain tensor has exx = eyy = s - 1
\* and exy = 0.
C13_UniformScaling ==
    \A s \in Scalings \cup {Zero, One} :
        (StrainDone /\ PassesValidation /\ call.strain_type = "small"
            /\ ScaledAboutCenter(s))
        => result = Return(Isotropic(s))

\* C13: when the original corner-minus-center vectors have rank 2 and every
\* deformed point is the original point scaled by s about the center point,
\* the small-strain tensor has exx = eyy = s - 1 and exy = 0.
C13_UniformScalingAtFullRank ==
    \A s \in Scalings \cup {Zero, One} :
        (StrainDone /\ PassesValidation /\ call.strain_type = "small"
            /\ OriginalRank = 2 /\ ScaledAboutCenter(s))
        => result = Return(Isotropic(s))

\* C13 witness: a rank-2 specimen whose center is not the origin, doubled in
\* size about its center
C13_Witness ==
    /\ StrainDone /\ PassesValidation /\ call.strain_type = "small"
    /\ OriginalRank = 2
    /\ call.original_points[call.center_index + 1] # <<Zero, Zero>>
    /\ ScaledAboutCenter(FromInt(2))
    /\ result = Return(Isotropic(FromInt(2)))

\* the strain type the call did not ask for
OtherType ==
    IF call.strain_type = "small" THEN "green_lagrangian" ELSE "small"

\* C15: for the same points the small-strain and the Green-Lagrangian tensors
\* differ whenever the fitted F is not the identity, and are equal, both
\* zero, only when F is the identity.
C15_SmallAndGreenEqualOnlyAtIdentity ==
    (StrainDone /\ PassesValidation) =>
        LET other == ExpectedStrain(locals.F, OtherType)
        IN  /\ (result.value = other) <=> (locals.F = Identity)
            /\ (locals.F = Identity) => (result.value = ZeroMatrix)
            /\ (locals.F = Identity) => (other = ZeroMatrix)

\* C15 witness: a sheared specimen, whose two tensors differ
C15_Witness ==
    /\ StrainDone /\ PassesValidation
    /\ locals.F = Shear
    /\ result.value # ExpectedStrain(locals.F, OtherType)

----------------------------------------------------------------------------
(* Properties of the extension scenario, checked under SpecExtension *)

ExtensionDone == pc = "done" /\ call.fn = "extension"

\* the rational parts of the vectors from the center, the fifth point, to
\* the four corners of the array handed to calculate_strain_tensor
ExtensionVec(k) ==
    <<RSub(locals.original_points[k][1].q, locals.original_points[5][1].q),
      RSub(locals.original_points[k][2].q, locals.original_points[5][2].q)>>

\* these vectors have rank 2
ExtensionFullRank ==
    /\ Finite(locals.original_points)
    /\ \E j \in 1..4, k \in 1..4 : Cross(ExtensionVec(j), ExtensionVec(k)) # Zero

\* exx = k - 1 and eyy = 0
ExtensionStrainIs(k) ==
    /\ result.kind = "return"
    /\ result.value[1][1] = RSub(k, One)
    /\ result.value[2][2] = Zero

\* the scenario: the unit square and its center, the scale segment from
\* (0, 0) to (1, 0) standing for a length of 10, an extension of 20%
IsTestScenario ==
    call = ExtensionCall(UnitSquare, TRUE, TestScale1, TestScaleLength, Rat(6, 5))

\* C14 as stated: whenever the deformed points are the original points with
\* every x-coordinate multiplied by k, the small strain has exx = k - 1 and
\* eyy = 0; in the scenario the normalized point 1 is (10, 0) and the strain
\* is exx = 0.2, eyy = 0.
C14_ExtensionInX ==
    /\ ExtensionDone => ExtensionStrainIs(call.k)
    /\ (ExtensionDone /\ IsTestScenario) =>
           locals.original_points[2] = <<Fin(FromInt(10), 1), Fin(Zero, 1)>>

\* C14: when the original corner-minus-center vectors have rank 2 and the
\* deformed points are the original points with every x-coordinate
\* multiplied by k, the small strain has exx = k - 1 and eyy = 0; in the
\* scenario the normalized point 1 is (10, 0) and the strain is exx = 0.2,
\* eyy = 0.
C14_ExtensionInXAtFullRank ==
    /\ (ExtensionDone /\ ExtensionFullRank) => ExtensionStrainIs(call.k)
    /\ (ExtensionDone /\ IsTestScenario) =>
           /\ locals.original_points[2] = <<Fin(FromInt(10), 1), Fin(Zero, 1)>>
           /\ ExtensionStrainIs(Rat(6, 5))
           /\ result.value[1][1] = Rat(1, 5)

\* C14 witness: the scenario has run
C14_Witness ==
    /\ ExtensionDone /\ IsTestScenario
    /\ locals.original_points[2] = <<Fin(FromInt(10), 1), Fin(Zero, 1)>>
    /\ result.kind = "return"
    /\ result.value[1][1] = Rat(1, 5)

\* C14, the test: the unit square taken as it is, extended by 20%
C14_WitnessTest ==
    /\ ExtensionDone /\ ~call.normalize /\ impl = "legacy"
    /\ call.fiducial_points = UnitSquare /\ call.k = Rat(6, 5)
    /\ result.kind = "return"
    /\ result.value[1][1] = Rat(1, 5)

----------------------------------------------------------------------------
(* Properties of normalize_points_by_scale, checked under SpecNormalize *)

NormalizeDone == pc = "done" /\ call.fn = "normalize_points_by_scale"

ValidShapes ==
    /\ Shape(call.fiducial_points) = <<5, 2>>
    /\ Shape(call.scale_points) = <<2, 2>>

\* the two scale points coincide: their pixel distance is 0
ScaleCoincides == call.scale_points[1] = call.scale_points[2]

\* the squared pixel distance between the two scale points
ScaleDistSq ==
    LET d == Minus(call.scale_points[2], call.scale_points[1])
    IN  RAdd(RMul(d[1], d[1]), RMul(d[2], d[2]))

\* the square of a finite value
SquareOf(f) == RMul(RMul(f.q, f.q), FromInt(f.rad))

\* the finite value f equals x * scale_length / distance for the rational x:
\* the signs agree and so do the squares
IsScaled(f, x) ==
    /\ f.k = "fin"
    /\ RSign(f.q) = RSign(x) * RSign(call.scale_length)
    /\ RMul(SquareOf(f), ScaleDistSq) =
           RMul(RMul(x, x), RMul(call.scale_length, call.scale_length))

\* C3 as stated: when the two scale points coincide the function fails with
\* an error and returns no point array.
C3_DegenerateScaleRaises ==
    (NormalizeDone /\ ValidShapes /\ ScaleCoincides) => result.kind = "raise"

\* C4: for valid shapes and distinct scale points the function returns, for
\* each of the 5 fiducial points in order, (point - scale[0]) times
\* scale_length / distance(scale[1], scale[0]), the same factor for x and y.
C4_TranslateThenScale ==
    (NormalizeDone /\ ValidShapes /\ ~ScaleCoincides) =>
        /\ result.kind = "return"
        /\ Len(result.value) = 5
        /\ \A i \in 1..5 :
            LET moved == Minus(call.fiducial_points[i], call.scale_points[1])
            IN  /\ IsScaled(result.value[i][1], moved[1])
                /\ IsScaled(result.value[i][2], moved[2])

\* C4 witness: the second call of the test, whose first point comes out at
\* (-10, -10)
C4_Witness ==
    /\ NormalizeDone
    /\ call.fiducial_points = UnitSquare
    /\ call.scale_points = TestScale2
    /\ call.scale_length = TestScaleLength
    /\ result.kind = "return"
    /\ result.value[1] = <<Fin(FromInt(-10), 1), Fin(FromInt(-10), 1)>>
    /\ result.value[5] = <<Fin(FromInt(-5), 1), Fin(FromInt(-5), 1)>>

C6_BadShapeRaises ==
    (NormalizeDone /\ ~ValidShapes) =>
        /\ result.kind = "raise"
        /\ result.exc = "ValueError"
        /\ locals = NoLocals

\* C6 witness: the third call of the test, a scale array of one point
C6_Witness ==
    /\ NormalizeDone
    /\ call.fiducial_points = UnitSquare
    /\ Shape(call.scale_points) = <<1, 2>>
    /\ result.kind = "raise"
    /\ result.exc = "ValueError"

----------------------------------------------------------------------------
(* Properties of strain_analysis_data, checked under SpecAnalysis *)

AnalyzeDone == pc = "done" /\ call.fn = "analyze_strain_data"
RegressionDone == pc = "done" /\ call.fn = "calculate_regression"

RegressionKeys == {"slope", "intercept", "r_squared", "p_value"}

\* the residual of specimen k: entry (i, j) of its tensor less the value at
\* its distance of the line of the regression reg
Residual(reg, k, i, j) ==
    RSub(call.strain_data[k].strain_tensor[i][j],
         RAdd(RMul(reg.slope.q, call.strain_data[k].deformation_distance),
              reg.intercept.q))

\* reg is the least-squares line of entry (i, j) of the tensors against the
\* distances, specimen by specimen: the residuals sum to zero, and so do
\* the residuals weighted by the distances
FitsComponent(reg, i, j) ==
    LET n == Len(call.strain_data)
    IN  reg.slope.k = "fin" =>
            /\ reg.intercept.k = "fin"
            /\ Sum([k \in 1..n |-> Residual(reg, k, i, j)]) = Zero
            /\ Sum([k \in 1..n |->
                    RMul(call.strain_data[k].deformation_distance,
                         Residual(reg, k, i, j))]) = Zero

\* C16: the regression_results of analyze_strain_data have exactly the keys
\* x_axis, y_axis and shear, the fits of the tensor entries [0,0], [1,1]
\* and [0,1] against the deformation distances, the i-th distance with the
\* i-th specimen's entry; each has exactly the keys slope, intercept,
\* r_squared and p_value.
C16_ThreeRegressionsFourKeys ==
    (AnalyzeDone /\ result.kind = "return") =>
        LET regression_results == result.value.regression_results
        IN  /\ DOMAIN regression_results = {"x_axis", "y_axis", "shear"}
            /\ \A name \in DOMAIN regression_results :
                   DOMAIN regression_results[name] = RegressionKeys
            /\ FitsComponent(regression_results["x_axis"], 1, 1)
            /\ FitsComponent(regression_results["y_axis"], 2, 2)
            /\ FitsComponent(regression_results["shear"], 1, 2)

\* C16 witness: three specimens at three distances whose tensor is not
\* symmetric and whose components have different slopes
C16_Witness ==
    /\ AnalyzeDone /\ result.kind = "return"
    /\ Len(call.strain_data) = 3
    /\ \E k \in 1..3 : call.strain_data[k].strain_tensor[1][2]
                            # call.strain_data[k].strain_tensor[2][1]
    /\ result.value.regression_results["x_axis"].slope = Fin(Half, 1)
    /\ result.value.regression_results["y_axis"].slope = Fin(Zero, 1)
    /\ result.value.regression_results["shear"].slope = Fin(FromInt(-1), 1)

\* all the deformation distances of the call are the same
IdenticalDistances ==
    \A k \in 1..Len(call.strain_data) :
        call.strain_data[k].deformation_distance
            = call.strain_data[1].deformation_distance

\* C17 as stated: the analysis fails with an error, and returns no result,
\* whenever fewer than 2 specimens are supplied or all the deformation
\* distances are identical.
C17_TooFewOrIdenticalRaises ==
    (AnalyzeDone /\ (Len(call.strain_data) < 2 \/ IdenticalDistances)) =>
        result.kind = "raise"

\* the r^2 above which the two-sided p-value of Student's t is below 0.05,
\* by degrees of freedom 1, 2, 3 (rounded up)
CriticalRSquared == <<Rat(9939, 10000), Rat(9025, 10000), Rat(7715, 10000)>>

\* the p-value is below 0.05
Significant(p_value) ==
    \/ p_value.k = "0.0"
    \/ /\ p_value.k = "t"
       /\ p_value.df \in DOMAIN CriticalRSquared
       /\ RLess(CriticalRSquared[p_value.df], p_value.rsq)

\* every point of the call lies on the line y = a x + b
OnLine(a, b) ==
    \A i \in 1..Len(call.x_values) :
        call.y_values[i] = RAdd(RMul(a, call.x_values[i]), b)

LineSlopes ==
    {FromInt(-2), FromInt(-1), Rat(-1, 2), Half, One, FromInt(2)}
LineIntercepts == {FromInt(n) : n \in 0..4}

\* C18: for three or more points, not all of the same x, that lie exactly
\* on a line y = a x + b with a # 0, calculate_regression returns slope a,
\* intercept b, r_squared 1 and a p_value below 0.05.
C18_ExactLineRecovered ==
    \A a \in LineSlopes, b \in LineIntercepts :
        (/\ RegressionDone
         /\ Len(call.x_values) >= 3
         /\ \E i \in 1..Len(call.x_values) : call.x_values[i] # call.x_values[1]
         /\ OnLine(a, b))
        => /\ result.kind = "return"
           /\ result.value.slope = Fin(a, 1)
           /\ result.value.intercept = Fin(b, 1)
           /\ result.value.r_squared = Fin(One, 1)
           /\ Significant(result.value.p_value)

\* C18 witness: the points of the test, y = 2 x for x = 0..4
C18_Witness ==
    /\ RegressionDone
    /\ call.x_values = TestXValues /\ call.y_values = TestYValues
    /\ OnLine(FromInt(2), Zero)
    /\ result.kind = "return"
    /\ result.value.slope = Fin(FromInt(2), 1)
    /\ result.value.r_squared = Fin(One, 1)
    /\ Significant(result.value.p_value)

\* C19: analyze_strain_data leaves the list of specimens, its records and
\* their tensors as they were, whether it returns or raises, and the mapping
\* it returns is built from them: it holds the list and the scale length it
\* was given and the three regressions.
C19_AnalyzeLeavesInput ==
    AnalyzeDone =>
        /\ locals.strain_data = call.strain_data
        /\ locals.scale_length = call.scale_length
        /\ result.kind = "return" =>
               /\ DOMAIN result.value
                     = {"strain_data", "scale_length", "regression_results"}
               /\ result.value.strain_data = call.strain_data
               /\ result.value.scale_length = call.scale_length

\* C19 witness: three specimens, the first unlike the last, analysed
C19_Witness ==
    /\ AnalyzeDone /\ result.kind = "return"
    /\ Len(call.strain_data) = 3
    /\ call.strain_data[1] # call.strain_data[3]
    /\ locals.strain_data = call.strain_data

----------------------------------------------------------------------------
(* Properties of sessions, checked under SpecSession *)

----------------------------------------------------------------------------
(* A parallel map over the specimens: every worker runs one call of          *)
(* calculate_strain_tensor, statement by statement, in any interleaving      *)
(* with the others.  A worker keeps the local variables of its call in its   *)
(* own frame; standard output is the one thing the workers have in common.   *)

\* the number of workers
MaxWorkers == 2

ParallelCalls ==
    {StrainCall(UnitSquare, Affine(StretchX, NoShift, UnitSquare), "small", 4),
     StrainCall(SkewQuad, Affine(Shear, NoShift, SkewQuad), "green_lagrangian", 4),
     StrainCall(FivePoints, FivePoints, "small", 4),
     StrainCall(UnitSquare, UnitSquare, "small", 5)}

NoFrame == [at |-> "empty"]

\* overlapped records whether another call was under way when this one
\* started
Worker(c) ==
    [call |-> c, pc |-> "validate", result |-> NoResult, frame |-> NoFrame,
     overlapped |-> FALSE]

InitParallel ==
    /\ workers \in [1..MaxWorkers -> {Worker(c) : c \in ParallelCalls}]
    /\ impl \in {"core", "legacy"}
    /\ call = <<>>
    /\ pc = "ready"
    /\ result = NoResult
    /\ locals = NoLocals
    /\ stdout = <<>>
    /\ history = <<>>
    /\ session_state = NoSession
    /\ network = <<>>

\* every worker keeping its local variables in the frame of worker 1
FrameOfShared(w) == 1

\* the frame holding the local variables of the call of worker w: its own
FrameOf(w) == w

UnderWay(w) == workers[w].pc \notin {"validate", "done"}

\* the checks of the arguments, of strain_analysis_core or strain_analysis
Rejects(module, original_points, deformed_points, center_index) ==
    IF module = "core"
    THEN \/ ~ValidatePoints(original_points, <<5, 2>>)
         \/ ~ValidatePoints(deformed_points, <<5, 2>>)
         \/ CenterIndexOutOfRange(original_points, center_index)
    ELSE \/ Shape(original_points) # Shape(deformed_points)
         \/ CenterIndexOutOfRange(original_points, center_index)

\* validate_points(...); if center_index < 0 or ...: raise ValueError
WorkerValidate(w) ==
    /\ workers[w].pc = "validate"
    /\ \E c \in {workers[w].call} :
       \E overlap \in {\E v \in DOMAIN workers : v # w /\ UnderWay(v)} :
          IF Rejects(impl, c.original_points, c.deformed_points, c.center_index)
          THEN workers' = [workers EXCEPT ![w].pc = "done",
                                          ![w].result = Raise("ValueError"),
                                          ![w].overlapped = overlap]
          ELSE workers' = [workers EXCEPT ![w].pc = "vectors",
                                          ![w].overlapped = overlap]
    /\ UNCHANGED <<call, impl, pc, result, locals, stdout, history,
                   session_state, network>>

\* corner_indices = [...]; vectors_original = ...; vectors_deformed = ...
WorkerVectors(w) ==
    /\ workers[w].pc = "vectors"
    /\ \E c \in {workers[w].call} :
       \E corner_indices \in {CornerIndices(c.original_points, c.center_index)} :
          workers' =
              [workers EXCEPT
                  ![FrameOf(w)].frame =
                      [at |-> "vectors",
                       vectors_original |->
                           CornerVectors(c.original_points, corner_indices,
                                         c.center_index),
                       vectors_deformed |->
                           CornerVectors(c.deformed_points, corner_indices,
                                         c.center_index)],
                  ![w].pc = "lstsq"]
    /\ UNCHANGED <<call, impl, pc, result, locals, stdout, history,
                   session_state, network>>

\* F_transpose, _, rank, _ = np.linalg.lstsq(...); F = F_transpose.T
WorkerLstsq(w) ==
    /\ workers[w].pc = "lstsq"
    /\ \E frame \in {workers[FrameOf(w)].frame} :
       \E fit \in {Lstsq(frame.vectors_original, frame.vectors_deformed)} :
          workers' =
              [workers EXCEPT
                  ![FrameOf(w)].frame =
                      [at |-> "fit", F |-> Transpose(fit.x), rank |-> fit.rank],
                  ![w].pc = "warn"]
    /\ UNCHANGED <<call, impl, pc, result, locals, stdout, history,
                   session_state, network>>

\* if rank < 2: print("Warning: ...")
WorkerWarn(w) ==
    /\ workers[w].pc = "warn"
    /\ stdout' = IF workers[FrameOf(w)].frame.rank < 2
                 THEN Append(stdout, RankWarning) ELSE stdout
    /\ workers' = [workers EXCEPT ![w].pc = "strain"]
    /\ UNCHANGED <<call, impl, pc, result, locals, history, session_state,
                   network>>

\* return 0.5 * (F + F.T) - identity_matrix, or the Green-Lagrangian strain
WorkerStrain(w) ==
    /\ workers[w].pc = "strain"
    /\ workers' =
           [workers EXCEPT
               ![w].result = Return(StrainOf(workers[FrameOf(w)].frame.F,
                                             workers[w].call.strain_type)),
               ![w].pc = "done"]
    /\ UNCHANGED <<call, impl, pc, result, locals, stdout, history,
                   session_state, network>>

NextParallel ==
    \E w \in DOMAIN workers :
        \/ WorkerValidate(w)
        \/ WorkerVectors(w)
        \/ WorkerLstsq(w)
        \/ WorkerWarn(w)
        \/ WorkerStrain(w)

SpecParallel == InitParallel /\ [][NextParallel]_vars

----------------------------------------------------------------------------
(* Properties of the parallel map, checked under SpecParallel *)

\* what the call gives when it runs alone, from its first statement to its
\* last
Sequential(module, c) ==
    IF module = "core"
    THEN CoreCalculateStrainTensor(c.original_points, c.deformed_points,
                                   c.strain_type, c.center_index).result
    ELSE LegacyCalculateStrainTensor(c.original_points, c.deformed_points,
                                     c.strain_type, c.center_index).result

\* C21: whatever the interleaving of the workers, a call that has finished
\* gave exactly the outcome it gives when it runs alone, and a call that
\* has not started has changed nothing.
C21_ParallelEqualsSequential ==
    \A w \in DOMAIN workers :
        /\ workers[w].pc = "done" =>
               workers[w].result = Sequential(impl, workers[w].call)
        /\ workers[w].pc = "validate" => workers[w].frame = NoFrame

\* C21 witness: two different calls, the second started while the first
\* was under way, both finished with their own tensors
C21_Witness ==
    /\ \A w \in DOMAIN workers : workers[w].pc = "done"
    /\ workers[2].overlapped
    /\ workers[1].result.kind = "return"
    /\ workers[2].result.kind = "return"
    /\ workers[1].result # workers[2].result
    /\ workers[1].call # workers[2].call
    /\ workers[2].result = Sequential(impl, workers[2].call)

----------------------------------------------------------------------------
(* The annotation store of the application: validate_annotation and          *)
(* save_annotation of src/streamlit_app.py (src/strain_analysis_ui.py has    *)
(* the same two functions, statement for statement).                         *)
(* An Optional value is the empty sequence for None and <<v>> for v.         *)
(* st.session_state.files_data is a dict: the model keeps its values in      *)
(* their insertion order, each under the key held in its field id.           *)

None == <<>>
Some(v) == <<v>>

\* one annotated point: {'point': [x, y], 'label': label}
Point(xy, label) == [point |-> xy, label |-> label]

\* sum(1 for p in points if p['label'] == label)
LabelCount(points, label) ==
    Cardinality({i \in 1..Len(points) : points[i].label = label})

\* validate_annotation counting the points of either label together
ValidateAnnotationCountsAll(points, deformation_distance) ==
    IF points = <<>> THEN <<FALSE, "Missing">>
    ELSE IF Len(points) # 7 THEN <<FALSE, "Incomplete">>
    ELSE IF deformation_distance = None THEN <<FALSE, "Missing Distance">>
    ELSE <<TRUE, "Complete">>

\* validate_annotation
ValidateAnnotation(points, deformation_distance) ==
    IF points = <<>> THEN <<FALSE, "Missing">>
    ELSE IF LabelCount(points, "Fiducial") # 5 \/ LabelCount(points, "Scale") # 2
    THEN <<FALSE, "Incomplete">>
    ELSE IF deformation_distance = None THEN <<FALSE, "Missing Distance">>
    ELSE <<TRUE, "Complete">>

\* the position of the key file_id in files_data, 0 when it is not there
KeyIndex(files_data, file_id) ==
    IF \E i \in 1..Len(files_data) : files_data[i].id = file_id
    THEN CHOOSE i \in 1..Len(files_data) : files_data[i].id = file_id
    ELSE 0

\* st.session_state.files_data.get(file_id, {... 'points': [], ...})
CurrentData(files_data, file_id, filename, order) ==
    IF KeyIndex(files_data, file_id) # 0
    THEN files_data[KeyIndex(files_data, file_id)]
    ELSE [id |-> file_id, filename |-> filename, order |-> order,
          points |-> <<>>, deformation_distance |-> None,
          status |-> <<FALSE, "Missing">>]

\* save_annotation storing the points it is given, None as no points
PointsOrNothing(points, current) ==
    IF points = None THEN <<>> ELSE points[1]

\* points or current_data['points']
PointsOr(points, current) ==
    IF points = None \/ points = Some(<<>>) THEN current ELSE points[1]

\* deformation_distance if deformation_distance is not None else current
DistanceOr(deformation_distance, current) ==
    IF deformation_distance # None THEN deformation_distance ELSE current

\* save_annotation: files_data after the call
SaveAnnotation(files_data, file_id, filename, order, points, deformation_distance) ==
    LET current_data == CurrentData(files_data, file_id, filename, order)
        kept_points == PointsOr(points, current_data.points)
        kept_distance ==
            DistanceOr(deformation_distance, current_data.deformation_distance)
        record == [id |-> file_id, filename |-> filename, order |-> order,
                   points |-> kept_points,
                   deformation_distance |-> kept_distance,
                   status |-> ValidateAnnotation(kept_points, kept_distance)]
        at == KeyIndex(files_data, file_id)
    IN  IF at = 0 THEN Append(files_data, record)
        ELSE [files_data EXCEPT ![at] = record]

----------------------------------------------------------------------------
(* The inputs of save_annotation *)

\* the images of a session, by their file ids 1, 2, ...
FileNames == <<"first.png", "second.png">>
FileIds == 1..Len(FileNames)

Fiducials(points) == [i \in 1..Len(points) |-> Point(points[i], "Fiducial")]
Scales(points) == [i \in 1..Len(points) |-> Point(points[i], "Scale")]

\* the unit square and its center, with one of the two scale points
PartialAnnotation == Fiducials(UnitSquare) \o Scales(<<<<One, One>>>>)
\* the unit square and its center between the two scale points
SquareAnnotation ==
    Scales(<<<<One, One>>>>) \o Fiducials(UnitSquare)
        \o Scales(<<<<FromInt(2), One>>>>)
\* seven points, six of them labelled Fiducial
MislabelledAnnotation ==
    Fiducials(UnitSquare) \o Fiducials(<<<<One, One>>>>)
        \o Scales(<<<<FromInt(2), One>>>>)

SavedPoints ==
    {None, Some(<<>>), Some(PartialAnnotation), Some(SquareAnnotation),
     Some(MislabelledAnnotation)}
SavedDistances == {None, Some(Zero), Some(One)}

SaveCall(file_id, points, deformation_distance) ==
    [fn |-> "save_annotation", file_id |-> file_id,
     filename |-> FileNames[file_id], order |-> file_id - 1,
     points |-> points, deformation_distance |-> deformation_distance]

\* initialize_session_state
NewSession == [files_data |-> <<>>, analysis_results |-> None,
               last_scale_length |-> FromInt(10)]

InitSave ==
    /\ session_state = NewSession
    /\ call = <<>>
    /\ impl = "none"
    /\ pc = "ready"
    /\ result = NoResult
    /\ locals = NoLocals
    /\ stdout = <<>>
    /\ history = <<>>
    /\ workers = <<>>
    /\ network = <<>>

\* one call of save_annotation, with any arguments
Save ==
    \E c \in {SaveCall(file_id, points, deformation_distance) :
                 file_id \in FileIds, points \in SavedPoints,
                 deformation_distance \in SavedDistances} :
        /\ call' = c
        /\ impl' = "app"
        /\ pc' = "done"
        /\ result' = Return(None)
        /\ locals' = [current_data |->
                         CurrentData(session_state.files_data, c.file_id,
                                     c.filename, c.order)]
        /\ session_state' =
               [session_state EXCEPT !.files_data =
                   SaveAnnotation(session_state.files_data, c.file_id,
                                  c.filename, c.order, c.points,
                                  c.deformation_distance)]
        /\ UNCHANGED <<stdout, history, workers, network>>

NextSave == Save

SpecSave == InitSave /\ [][NextSave]_vars

----------------------------------------------------------------------------
(* Properties of save_annotation, checked under SpecSave *)

\* the status the claim gives a record, from its points and its distance
StatusOf(record) ==
    IF record.points = <<>> THEN <<FALSE, "Missing">>
    ELSE IF LabelCount(record.points, "Fiducial") # 5
            \/ LabelCount(record.points, "Scale") # 2
    THEN <<FALSE, "Incomplete">>
    ELSE IF record.deformation_distance = None
    THEN <<FALSE, "Missing Distance">>
    ELSE <<TRUE, "Complete">>

\* C27: after any sequence of save_annotation calls, every record of
\* files_data has the status of its own points and distance: Missing iff
\* it has no points, Incomplete iff it has points but not 5 Fiducial and
\* 2 Scale ones, Missing Distance iff it has those and no distance, and
\* Complete otherwise.
C27_StatusMatchesRecord ==
    \A i \in 1..Len(session_state.files_data) :
        LET record == session_state.files_data[i]
        IN  /\ record.status = StatusOf(record)
            /\ record.status[1] <=>
                   /\ LabelCount(record.points, "Fiducial") = 5
                   /\ LabelCount(record.points, "Scale") = 2
                   /\ record.deformation_distance # None

\* C27 witness: after calls for both files, one record is Complete and the
\* other, with seven points of which six are Fiducial, is Incomplete
C27_Witness ==
    /\ pc = "done" /\ call.fn = "save_annotation"
    /\ Len(session_state.files_data) = 2
    /\ session_state.files_data[1].status = <<TRUE, "Complete">>
    /\ session_state.files_data[2].points = MislabelledAnnotation
    /\ session_state.files_data[2].deformation_distance # None
    /\ session_state.files_data[2].status = <<FALSE, "Incomplete">>

\* the record stored under file_id
Stored(files_data, file_id) == files_data[KeyIndex(files_data, file_id)]

\* C28: a call of save_annotation leaves the records of the other file ids
\* as they were; with points None or [] it leaves the stored points, with
\* deformation_distance None the stored distance (0.0 is stored); so
\* stored points never become empty again and a stored distance never None.
C28_OnlySuppliedDataOverwrites ==
    [][\A i \in 1..Len(session_state.files_data) :
          LET before == session_state.files_data[i]
              after == session_state.files_data'[i]
          IN  /\ Len(session_state.files_data') >= Len(session_state.files_data)
              /\ after.id = before.id
              /\ before.id # call'.file_id => after = before
              /\ (before.id = call'.file_id
                     /\ call'.points \in {None, Some(<<>>)})
                    => after.points = before.points
              /\ (before.id = call'.file_id
                     /\ call'.deformation_distance = None)
                    => after.deformation_distance = before.deformation_distance
              /\ (before.id = call'.file_id
                     /\ call'.deformation_distance = Some(Zero))
                    => after.deformation_distance = Some(Zero)
              /\ before.points # <<>> => after.points # <<>>
              /\ before.deformation_distance # None
                    => after.deformation_distance # None]_vars

\* C28 witness: a call with points [] and no distance, for a file that had
\* points and a distance, and both are still there, beside another record
C28_Witness ==
    /\ pc = "done" /\ call.fn = "save_annotation"
    /\ call.points = Some(<<>>) /\ call.deformation_distance = None
    /\ Len(session_state.files_data) = 2
    /\ locals.current_data.points = SquareAnnotation
    /\ locals.current_data.deformation_distance = Some(Zero)
    /\ Stored(session_state.files_data, call.file_id).points = SquareAnnotation
    /\ Stored(session_state.files_data, call.file_id).deformation_distance
           = Some(Zero)

----------------------------------------------------------------------------
(* The application, src/streamlit_app.py.  Streamlit runs the script from    *)
(* top to bottom after every interaction of the user with a widget; what     *)
(* lasts from one run to the next is st.session_state and the values of the  *)
(* widgets.  Images, plots and the formatting of the tables are left out.    *)

\* a statement `name = value` followed by the statements Rest(name): the
\* value is computed once, however often the rest reads it
Assigned(value, Rest(_)) == CHOOSE after \in {Rest(v) : v \in {value}} : TRUE

\* [p['point'] for p in points if p['label'] == 'Fiducial'] as np.array
FiducialPoints(points) ==
    LET chosen == SelectSeq(points, LAMBDA p : p.label = "Fiducial")
    IN  [i \in 1..Len(chosen) |-> chosen[i].point]

\* the points of the else branch: every label but 'Fiducial'
ScalePoints(points) ==
    LET chosen == SelectSeq(points, LAMBDA p : p.label # "Fiducial")
    IN  [i \in 1..Len(chosen) |-> chosen[i].point]

\* the record put after the records of sorted whose order is not larger
InsertByOrder(sorted, record) ==
    LET k == Cardinality({i \in 1..Len(sorted) : sorted[i].order <= record.order})
    IN  SubSeq(sorted, 1, k) \o <<record>> \o SubSeq(sorted, k + 1, Len(sorted))

RECURSIVE SortedFrom(_, _)
SortedFrom(files, n) ==
    IF n = 0 THEN <<>> ELSE InsertByOrder(SortedFrom(files, n - 1), files[n])

\* sorted(st.session_state.files_data.values(), key=lambda x: x['order'])
SortedByOrder(files_data) == SortedFrom(files_data, Len(files_data))

RECURSIVE AfterUploads(_, _, _)
\* for i, uploaded_file in enumerate(uploaded_files): if not file_exists:
\*     save_annotation(file_id, uploaded_file.name, i)
\* from the i-th file on; the new file_id is the number of the image
AfterUploads(files_data, uploaded_files, i) ==
    IF i > Len(uploaded_files) THEN files_data
    ELSE IF \E k \in 1..Len(files_data) :
                files_data[k].filename = uploaded_files[i]
    THEN AfterUploads(files_data, uploaded_files, i + 1)
    ELSE Assigned(
             SaveAnnotation(files_data,
                 CHOOSE id \in FileIds : FileNames[id] = uploaded_files[i],
                 uploaded_files[i], i - 1, None, None),
             LAMBDA saved : AfterUploads(saved, uploaded_files, i + 1))

\* the turn of the loop taking the points as annotated for the original
\* configuration and the normalized points for the deformed one
SpecimenStrainFromPixels(data, scale_length) ==
    Assigned(LegacyNormalizePointsByScale(FiducialPoints(data.points),
                 ScalePoints(data.points), scale_length),
             LAMBDA normalized :
    IF normalized.result.kind = "raise"
    THEN [result |-> normalized.result, out |-> <<>>, rank |-> -1]
    ELSE
    Assigned(FloatCalculateStrainTensor("legacy",
                 AsFloats(FiducialPoints(data.points)),
                 normalized.result.value, "small", 4),
             LAMBDA strain :
    IF strain.result.kind = "raise"
    THEN [result |-> strain.result, out |-> <<>>, rank |-> -1]
    ELSE [result |->
              Return([filename |-> data.filename,
                      deformation_distance |-> data.deformation_distance,
                      strain_tensor |-> strain.result.value]),
          out |-> strain.out,
          rank |-> strain.locals.rank]))

\* one turn of `for data in sorted_files`: the entry of strain_data, or the
\* exception raised, with the lines printed and the rank of the fit
SpecimenStrain(data, scale_length) ==
    Assigned(LegacyNormalizePointsByScale(FiducialPoints(data.points),
                 ScalePoints(data.points), scale_length),
             LAMBDA normalized :
    IF normalized.result.kind = "raise"
    THEN [result |-> normalized.result, out |-> <<>>, rank |-> -1]
    ELSE
    Assigned(FloatCalculateStrainTensor("legacy",
                 normalized.result.value, normalized.result.value,
                 "small", 4),
             LAMBDA strain :
    IF strain.result.kind = "raise"
    THEN [result |-> strain.result, out |-> <<>>, rank |-> -1]
    ELSE [result |->
              Return([filename |-> data.filename,
                      deformation_distance |-> data.deformation_distance,
                      strain_tensor |-> strain.result.value]),
          out |-> strain.out,
          rank |-> strain.locals.rank]))

RECURSIVE Joined(_, _)
\* the lines printed by the turns 1..n of the loop
Joined(turns, n) ==
    IF n = 0 THEN <<>> ELSE Joined(turns, n - 1) \o turns[n].out

\* x_values, the three stats.linregress calls and the dict stored in
\* st.session_state.analysis_results
Regressions(strain_data, scale_length) ==
    Assigned([i \in 1..Len(strain_data) |->
                 [deformation_distance |->
                      strain_data[i].deformation_distance[1],
                  strain_tensor |-> strain_data[i].strain_tensor]],
             LAMBDA data :
    Assigned(XValues(data), LAMBDA x_values :
    Assigned([name \in ComponentNames |->
                 CalculateRegression(x_values, ComponentValues(data, name))],
             LAMBDA fits :
    IF fits["x_axis"].result.kind = "raise" THEN fits["x_axis"].result
    ELSE Return([strain_data |-> strain_data,
                 scale_length |-> scale_length,
                 regression_results |->
                     [name \in ComponentNames |-> fits[name].result.value]]))))

\* the analysis from the turns of its loop: the first exception ends the
\* run of the script; without one, the regressions follow
AnalysisFrom(turns, scale_length) ==
    LET failed == {i \in 1..Len(turns) : turns[i].result.kind = "raise"}
        ranks == [i \in 1..Len(turns) |-> turns[i].rank]
    IN  IF failed # {}
        THEN LET first == CHOOSE i \in failed : \A j \in failed : i <= j
             IN  [result |-> turns[first].result,
                  out |-> Joined(turns, first - 1), ranks |-> ranks]
        ELSE [result |->
                  Regressions([i \in 1..Len(turns) |-> turns[i].result.value],
                              scale_length),
              out |-> Joined(turns, Len(turns)), ranks |-> ranks]

RECURSIVE Turns(_, _, _)
\* the turns 1..n of `for data in sorted_files`
Turns(sorted_files, scale_length, n) ==
    IF n = 0 THEN <<>>
    ELSE Append(Turns(sorted_files, scale_length, n - 1),
                SpecimenStrain(sorted_files[n], scale_length))

\* lines 339-406: the strain of every file of sorted_files, then the
\* regressions
RunAnalysis(sorted_files, scale_length) ==
    \* the one value of the set: the turns are computed once
    CHOOSE run \in
        {AnalysisFrom(turns, scale_length) :
            turns \in {Turns(sorted_files, scale_length, Len(sorted_files))}} :
        TRUE

\* all(...) asking only the first record for its status
AllCompleteFirstOnly(files_data) == files_data[1].status[1]

\* all(data['status'][0] for data in st.session_state.files_data.values())
AllComplete(files_data) ==
    \A i \in 1..Len(files_data) : files_data[i].status[1]

\* the record of files_data with the filename
ByFilename(files_data, filename) ==
    files_data[CHOOSE i \in 1..Len(files_data) :
                   files_data[i].filename = filename]

\* what a run of the script shows
Nothing == [shown |-> "nothing"]
Disabled == [shown |-> "disabled"]
\* the plots and tables of strain_data and regression_results, and the
\* downloads: raw_data (files_data and scale_length), the strain
\* components and the regression results
Shown(analysis_results, files_data, scale_length) ==
    [shown |-> "analysis",
     strain_data |-> analysis_results.strain_data,
     regression_results |-> analysis_results.regression_results,
     raw_data |-> [files_data |-> files_data, scale_length |-> scale_length]]

\* what a run leaves for the properties: whether it reached the analysis
\* section, whether it ran the analysis and, if it did, the list it ran it on
\* and the ranks of the fits
NoRun == [sorted_files |-> <<>>, all_complete |-> FALSE, analysed |-> FALSE,
          ranks |-> <<>>]

\* lines 401-411: what the analysis section leaves, from the outcome run of
\* the analysis (or the results kept, when stale); files_data is the store
\* after save_annotation, sorted_files the list made before it
AfterAnalysis(ss, files_data, sorted_files, scale_length, stale, run) ==
    LET frame == [sorted_files |-> IF stale THEN <<>> ELSE sorted_files,
                  all_complete |-> TRUE, analysed |-> ~stale,
                  ranks |-> run.ranks]
    IN  IF run.result.kind = "raise"
        THEN [session_state |->
                  [files_data |-> files_data,
                   analysis_results |-> ss.analysis_results,
                   last_scale_length |-> scale_length],
              result |-> run.result, locals |-> frame, out |-> run.out]
        ELSE [session_state |->
                  [files_data |-> files_data,
                   analysis_results |-> Some(run.result.value),
                   last_scale_length |-> scale_length],
              result |-> Return(Shown(run.result.value, files_data, scale_length)),
              locals |-> frame, out |-> run.out]

\* lines 335-337: the analysis runs when there are no results yet or when
\* the results were computed for another scale length
AnalysisSection(ss, files_data, sorted_files, scale_length) ==
    LET stale == /\ ss.analysis_results # None
                 /\ ss.analysis_results[1].scale_length = scale_length
    IN  \* the one value of the set: the analysis is computed once
        CHOOSE after \in
            {AfterAnalysis(ss, files_data, sorted_files, scale_length, stale, run) :
                run \in {IF stale
                         THEN [result |-> Return(ss.analysis_results[1]),
                               out |-> <<>>, ranks |-> <<>>]
                         ELSE RunAnalysis(sorted_files, scale_length)}} : TRUE

\* one run of the script with the values of its widgets: the files of the
\* uploader, the file chosen in the selectbox, the points pointdet returns,
\* and the two number inputs, None for one the user left alone
Script(ss, uploaded_files, selected_filename, points, deformation_distance, scale_length) ==
    Assigned(AfterUploads(ss.files_data, uploaded_files, 1), LAMBDA uploaded :
    IF uploaded = <<>>
    THEN [session_state |-> ss, result |-> Return(Nothing),
          locals |-> NoRun, out |-> <<>>]
    ELSE
    Assigned(SortedByOrder(uploaded), LAMBDA sorted_files :
    Assigned(ByFilename(uploaded, selected_filename), LAMBDA file_data :
    Assigned(IF deformation_distance # None THEN deformation_distance
             ELSE IF file_data.deformation_distance # None
             THEN file_data.deformation_distance
             ELSE Some(Zero), LAMBDA distance :
    Assigned(SaveAnnotation(uploaded, file_data.id, file_data.filename,
                            file_data.order, points, distance),
             LAMBDA files_data :
    IF ~AllComplete(files_data)
    THEN [session_state |-> [ss EXCEPT !.files_data = files_data],
          result |-> Return(Disabled),
          locals |-> NoRun,
          out |-> <<>>]
    ELSE AnalysisSection(ss, files_data, sorted_files,
             IF scale_length # None THEN scale_length[1]
             ELSE ss.last_scale_length))))))

\* the widgets that keep their value from one run to the next: the file
\* uploader and the selectbox (the number inputs show what is stored)
Widgets(uploaded_files, selected_filename) ==
    [fn |-> "streamlit_app", uploaded_files |-> uploaded_files,
     selected_filename |-> selected_filename]

\* collinear fiducial points between the two scale points
LineAnnotation ==
    Scales(<<<<One, One>>>>)
        \o Fiducials(<<<<Zero, Zero>>, <<One, Zero>>, <<FromInt(2), Zero>>,
                       <<FromInt(3), Zero>>, <<FromInt(4), Zero>>>>)
        \o Scales(<<<<FromInt(2), One>>>>)

\* the unit square and its center between two scale points in one place
PointScaleAnnotation ==
    Scales(<<<<One, One>>>>) \o Fiducials(UnitSquare)
        \o Scales(<<<<One, One>>>>)

\* what the user can have in the annotation widget
Annotations ==
    {PartialAnnotation, SquareAnnotation, LineAnnotation, PointScaleAnnotation}
\* the number inputs have min_value=0.0
DistanceInputs == {Zero, One}
ScaleLengthInputs == {Zero, FromInt(10)}

InitApp ==
    /\ session_state = NewSession
    /\ call = Widgets(<<>>, "")
    /\ impl = "app"
    /\ pc = "shown"
    /\ result = Return(Nothing)
    /\ locals = NoRun
    /\ stdout = <<>>
    /\ history = <<>>
    /\ workers = <<>>
    /\ network = <<>>

\* the script runs again: the widgets w, the points pointdet returns and
\* the two number inputs, None for what the user left alone.  The warnings
\* of calculate_strain_tensor go to the console of the server, which the
\* model does not keep from run to run.
Rerun(w, points, deformation_distance, scale_length) ==
    \E run \in {Script(session_state, w.uploaded_files, w.selected_filename,
                       points, deformation_distance, scale_length)} :
        /\ call' = w
        /\ session_state' = run.session_state
        /\ result' = run.result
        /\ locals' = run.locals
        /\ UNCHANGED <<impl, pc, stdout, history, workers, network>>

\* the file the selectbox shows when the user does not choose: the one it
\* showed, or the first option ("" while there is no file)
Selected(uploaded_files) ==
    IF call.selected_filename # "" THEN call.selected_filename
    ELSE SortedByOrder(AfterUploads(session_state.files_data,
                                    uploaded_files, 1))[1].filename

\* the user adds the next image to the uploader
Upload ==
    /\ Len(call.uploaded_files) < Len(FileNames)
    /\ \E files \in {Append(call.uploaded_files,
                            FileNames[Len(call.uploaded_files) + 1])} :
           Rerun(Widgets(files, Selected(files)), None, None, None)

\* the user chooses another image in the selectbox
Select ==
    \E i \in 1..Len(call.uploaded_files) :
        /\ call.uploaded_files[i] # call.selected_filename
        /\ Rerun(Widgets(call.uploaded_files, call.uploaded_files[i]),
                 None, None, None)

\* the user adds or removes points on the image
Annotate ==
    /\ call.uploaded_files # <<>>
    /\ \E points \in Annotations : Rerun(call, Some(points), None, None)

\* the user enters a deformation distance
EnterDistance ==
    /\ call.uploaded_files # <<>>
    /\ \E distance \in DistanceInputs : Rerun(call, None, Some(distance), None)

\* the user enters a scale length; the input is there when the last run
\* reached the analysis section
EnterScaleLength ==
    /\ locals.all_complete
    /\ \E scale_length \in ScaleLengthInputs :
           Rerun(call, None, None, Some(scale_length))

NextApp == Upload \/ Select \/ Annotate \/ EnterDistance \/ EnterScaleLength

SpecApp == InitApp /\ [][NextApp]_vars

----------------------------------------------------------------------------
(* Properties of the application, checked under SpecApp *)

\* the run of the script showed the analysis results and the downloads
ShowsAnalysis == result.kind = "return" /\ result.value.shown = "analysis"

\* the record holds exactly 5 Fiducial points, exactly 2 Scale points and a
\* deformation distance
IsComplete(record) ==
    /\ LabelCount(record.points, "Fiducial") = 5
    /\ LabelCount(record.points, "Scale") = 2
    /\ record.deformation_distance # None

\* C22 (as claimed): whenever the analysis results are shown or offered for
\* download, the strain data and the regression results are those computed
\* from the files_data and the scale length of that moment.
C22_ShownResultsAreCurrent ==
    ShowsAnalysis =>
        \E fresh \in {RunAnalysis(SortedByOrder(session_state.files_data),
                                  session_state.last_scale_length)} :
            /\ fresh.result.kind = "return"
            /\ result.value.strain_data = fresh.result.value.strain_data
            /\ result.value.regression_results
                   = fresh.result.value.regression_results

\* C23 (as claimed): every strain tensor stored in analysis_results is the
\* zero tensor.
C23_StoredTensorsAreZero ==
    session_state.analysis_results # None =>
        \A i \in 1..Len(session_state.analysis_results[1].strain_data) :
            session_state.analysis_results[1].strain_data[i].strain_tensor
                = ZeroMatrix

\* the run of the script ran the analysis and stored its results
StoredAnalysis ==
    /\ locals.analysed
    /\ result.kind = "return"
    /\ session_state.analysis_results # None

\* C23: in the analysis path the same normalized points are the original
\* and the deformed configuration, so the tensor stored for a specimen is
\* the zero tensor when its normalized corner-minus-center vectors have
\* rank 2, and is not when their rank is lower (collinear fiducial points,
\* or a scale length of 0).
C23_StoredTensorsAreZeroAtFullRank ==
    StoredAnalysis =>
        \A i \in 1..Len(session_state.analysis_results[1].strain_data) :
            (locals.ranks[i] = 2) <=>
                (session_state.analysis_results[1].strain_data[i].strain_tensor
                     = ZeroMatrix)

\* C23 witness: an analysis of two specimens at scale length 10, both with
\* the zero tensor
C23_Witness ==
    /\ StoredAnalysis
    /\ session_state.last_scale_length = FromInt(10)
    /\ Len(session_state.analysis_results[1].strain_data) = 2
    /\ locals.ranks = <<2, 2>>
    /\ \A i \in 1..2 :
           session_state.analysis_results[1].strain_data[i].strain_tensor
               = ZeroMatrix

\* C24: the analysis is run, and its results are shown, only when every
\* record of files_data has the status Complete, with 5 Fiducial points, 2
\* Scale points and a deformation distance; and an analysis that came to
\* its end was given only such records.
C24_AnalysisOnlyWhenAllComplete ==
    /\ (locals.analysed \/ locals.all_complete \/ ShowsAnalysis) =>
           \A i \in 1..Len(session_state.files_data) :
               /\ session_state.files_data[i].status = <<TRUE, "Complete">>
               /\ IsComplete(session_state.files_data[i])
    /\ StoredAnalysis =>
           \A i \in 1..Len(locals.sorted_files) :
               IsComplete(locals.sorted_files[i])

\* C24 witness: with two files the run before showed nothing of the
\* analysis while one file was not Complete; this one analysed both
C24_Witness ==
    /\ StoredAnalysis /\ ShowsAnalysis
    /\ Len(session_state.files_data) = 2
    /\ Len(locals.sorted_files) = 2
    /\ session_state.files_data[1].points # session_state.files_data[2].points

----------------------------------------------------------------------------
(* The weather tool, src/tools/weather.py.  get_weather_data sends one HTTP  *)
(* request with httpx.get and turns the reply into a string.  What           *)
(* httpx.get does is the library's: it returns a Response for every status   *)
(* the server answers with, and it raises (ConnectError, ReadTimeout, ...)   *)
(* when no answer arrives; Response.json() raises JSONDecodeError on a body  *)
(* that is no JSON.  The tests replace get by mocks that return a response   *)
(* or None.                                                                  *)

\* forcast_days runs over -2..MaxForcastDays, max_days over -2..MaxForcastDays
MaxForcastDays == 5

ForcastDays == -2..MaxForcastDays

\* normalize_forcast_days without the branch that caps at max_days
NormalizeForcastDaysUncapped(forcast_days, max_days) ==
    IF forcast_days > 0 THEN forcast_days ELSE 0

\* normalize_forcast_days(forcast_days, max_days)
NormalizeForcastDays(forcast_days, max_days) ==
    IF forcast_days > 0
    THEN IF forcast_days <= max_days THEN forcast_days ELSE max_days
    ELSE 0

\* the default of max_days
DefaultMaxDays == 3

\* str(n) of an f-string, n an integer of at most two digits
Digits == <<"0", "1", "2", "3", "4", "5", "6", "7", "8", "9">>

StrNat(n) ==
    IF n < 10 THEN Digits[n + 1] ELSE Digits[(n \div 10) + 1] \o Digits[(n % 10) + 1]

Str(n) == IF n < 0 THEN "-" \o StrNat(-n) ELSE StrNat(n)

Param(name, value) == [name |-> name, value |-> value]

\* the URL of the request: the endpoint and the parameters in their order
Url(endpoint, params) == [endpoint |-> endpoint, params |-> params]

KeyParam == Param("key", "WEATHERAPI_API_KEY")

\* forcast_endpoint + location_param + forcast_days_param
\*     + air_quality_param + alerts_param
ForcastUrl(location, normalized_forcast_days) ==
    Url("https://api.weatherapi.com/v1/forecast.json",
        <<KeyParam, Param("q", location),
          Param("days", Str(normalized_forcast_days)),
          Param("aqi", "yes"), Param("alerts", "yes")>>)

\* current_endpoint + location_param + air_quality_param
CurrentUrl(location) ==
    Url("https://api.weatherapi.com/v1/current.json",
        <<KeyParam, Param("q", location), Param("aqi", "yes")>>)

\* the URL get_weather_data asks for
RequestUrl(location, normalized_forcast_days) ==
    IF normalized_forcast_days > 0
    THEN ForcastUrl(location, normalized_forcast_days)
    ELSE CurrentUrl(location)

\* a body: its text, and the value json.loads makes of it, None for a text
\* that is no JSON
Body(text, json) == [text |-> text, json |-> json]

Bodies ==
    { Body("{\"current\": {\"temp_c\": 5.2}}",
           Some([current |-> [temp_c |-> "5.2"]])),
      Body("{\"error\": {\"code\": 1006}}",
           Some([error |-> [code |-> "1006"]])),
      Body("<html>Bad Gateway</html>", None) }

Response(status_code, body) ==
    [kind |-> "response", status_code |-> status_code, body |-> body]

\* get returned None: a mock of the tests does so
NoResponse == [kind |-> "None"]

\* get raised e
GetRaised(e) == [kind |-> "raise", exc |-> e]

StatusCodes == {200, 400, 404, 500}

\* what may come of get(url)
Replies ==
    { Response(code, body) : code \in StatusCodes, body \in Bodies }
        \cup {NoResponse, GetRaised("ConnectError"), GetRaised("ReadTimeout")}

\* json.dumps(value, indent=2)
Dumps(value, indent) == [dumps |-> value, indent |-> indent]

FailedToFetch == "Failed to fetch weather data from WeatherAPI."

\* response and response.status_code == 200
IsOk(reply) == reply.kind = "response" /\ reply.status_code = 200

\* get_weather_data from the reply on: the outcome of the call
Outcome(reply) ==
    IF reply.kind = "raise" THEN Raise(reply.exc)
    ELSE IF IsOk(reply)
         THEN IF reply.body.json = None
              THEN Raise("JSONDecodeError")
              ELSE Return(Dumps(reply.body.json[1], 2))
         ELSE Return(FailedToFetch)

Locations == {"London", "InvalidLocation"}

WeatherCall(location, forcast_days) ==
    [fn |-> "get_weather_data", location |-> location,
     forcast_days |-> forcast_days]

NormalizeDaysCall(forcast_days, max_days) ==
    [fn |-> "normalize_forcast_days", forcast_days |-> forcast_days,
     max_days |-> max_days]

WeatherCalls ==
    { WeatherCall(location, forcast_days) :
          location \in Locations, forcast_days \in ForcastDays }

NormalizeDaysCalls ==
    { NormalizeDaysCall(forcast_days, max_days) :
          forcast_days \in ForcastDays, max_days \in ForcastDays }

InitWeather ==
    /\ \/ call \in WeatherCalls
       \/ call \in NormalizeDaysCalls
    /\ impl = "weather"
    /\ pc = "ready"
    /\ result = NoResult
    /\ locals = <<>>
    /\ stdout = <<>>
    /\ history = <<>>
    /\ session_state = NoSession
    /\ workers = <<>>
    /\ network = <<>>

\* a call of normalize_forcast_days
NormalizeForcastDaysCall ==
    /\ pc = "ready"
    /\ call.fn = "normalize_forcast_days"
    /\ result' = Return(NormalizeForcastDays(call.forcast_days, call.max_days))
    /\ pc' = "done"
    /\ UNCHANGED <<call, impl, locals, stdout, history, outside>>

\* a call of get_weather_data, with what the network answers
GetWeatherData ==
    /\ pc = "ready"
    /\ call.fn = "get_weather_data"
    /\ \E normalized_forcast_days \in
              {NormalizeForcastDays(call.forcast_days, DefaultMaxDays)},
          reply \in Replies :
          /\ network' = Append(network,
                 [url |-> RequestUrl(call.location, normalized_forcast_days),
                  reply |-> reply])
          /\ locals' =
                 [normalized_forcast_days |-> normalized_forcast_days]
          /\ result' = Outcome(reply)
    /\ pc' = "done"
    /\ UNCHANGED <<call, impl, stdout, history, session_state, workers>>

NextWeather == NormalizeForcastDaysCall \/ GetWeatherData

SpecWeather == InitWeather /\ [][NextWeather]_vars

WeatherDone == pc = "done" /\ call.fn = "get_weather_data"

NormalizeDaysDone == pc = "done" /\ call.fn = "normalize_forcast_days"

\* the value of the parameter `name` of a URL, None without it
ParamOf(url, name) ==
    LET found == SelectSeq(url.params, LAMBDA p : p.name = name)
    IN  IF found = <<>> THEN None ELSE Some(found[1].value)

Min(a, b) == IF a <= b THEN a ELSE b

\* the request is the one the claim describes
RequestAsSpecified ==
    /\ Len(network) = 1
    /\ ParamOf(network[1].url, "q") = Some(call.location)
    /\ IF call.forcast_days > 0
       THEN /\ network[1].url.endpoint
                   = "https://api.weatherapi.com/v1/forecast.json"
            /\ ParamOf(network[1].url, "days")
                   = Some(Str(Min(call.forcast_days, 3)))
       ELSE /\ network[1].url.endpoint
                   = "https://api.weatherapi.com/v1/current.json"
            /\ ParamOf(network[1].url, "days") = None

\* the value normalize_forcast_days is said to return
NormalizedAsSpecified ==
    /\ result.kind = "return"
    /\ result.value =
           IF call.forcast_days <= 0 THEN 0
           ELSE IF call.forcast_days <= call.max_days THEN call.forcast_days
           ELSE call.max_days

C26_FailureIsAValue ==
    WeatherDone =>
        /\ result.kind = "return"
        /\ (network[1].reply.kind = "response"
                /\ network[1].reply.status_code = 200)
               => result.value = Dumps(network[1].reply.body.json[1], 2)
        /\ ~ (network[1].reply.kind = "response"
                /\ network[1].reply.status_code = 200)
               => result.value = FailedToFetch

----------------------------------------------------------------------------
(* normalize_points_by_scale in rounded arithmetic.  The operators above     *)
(* compute with exact values; numpy computes with binary floating-point      *)
(* numbers and rounds the result of every operation to the nearest           *)
(* representable number, ties to even.  Below, the same statements are       *)
(* computed with numbers of Precision significant bits, each operation       *)
(* rounded that way; float64 keeps 53 bits, more than the integers of the    *)
(* model checker hold.  Overflow and underflow of the exponent are left out. *)

\* the significant bits of a floating-point number
Precision == 8

RECURSIVE Pow2(_)
Pow2(k) == IF k = 0 THEN 1 ELSE 2 * Pow2(k - 1)

RECURSIVE RoundPositive(_, _)
\* the floating-point number nearest to n/d > 0, ties to even
RoundPositive(n, d) ==
    IF n < Pow2(Precision - 1) * d THEN RMul(RoundPositive(2 * n, d), Half)
    ELSE IF n >= Pow2(Precision) * d
    THEN RMul(RoundPositive(n, 2 * d), FromInt(2))
    ELSE LET m == n \div d
             rem == n % d
         IN  IF 2 * rem > d \/ (2 * rem = d /\ m % 2 = 1)
             THEN FromInt(m + 1) ELSE FromInt(m)

\* the floating-point number nearest to the rational x
Fl(x) ==
    IF x[1] = 0 THEN Zero
    ELSE IF x[1] > 0 THEN RoundPositive(x[1], x[2])
    ELSE RSub(Zero, RoundPositive(-x[1], x[2]))

RECURSIVE SqrtPositive(_, _)
\* the floating-point number nearest to the square root of n/d > 0
SqrtPositive(n, d) ==
    IF n < Pow2(2 * (Precision - 1)) * d
    THEN RMul(SqrtPositive(4 * n, d), Half)
    ELSE IF n >= Pow2(2 * Precision) * d
    THEN RMul(SqrtPositive(n, 4 * d), FromInt(2))
    ELSE LET m == CHOOSE k \in Pow2(Precision - 1)..(Pow2(Precision) - 1) :
                      k * k * d <= n /\ (k + 1) * (k + 1) * d > n
             twice == 2 * m + 1
         IN  IF twice * twice * d < 4 * n
                 \/ (twice * twice * d = 4 * n /\ m % 2 = 1)
             THEN FromInt(m + 1) ELSE FromInt(m)

\* np.sqrt of a floating-point number x >= 0
FlSqrt(x) == IF x[1] = 0 THEN Zero ELSE SqrtPositive(x[1], x[2])

FlAdd(x, y) == Fl(RAdd(x, y))
FlSub(x, y) == Fl(RSub(x, y))
FlMul(x, y) == Fl(RMul(x, y))

\* np.array(points, dtype=float)
FlArray(points) ==
    [i \in 1..Len(points) |-> [j \in 1..Len(points[i]) |-> Fl(points[i][j])]]

\* np.linalg.norm of a vector of two numbers: sqrt(dot(v, v))
FlNorm(v) == FlSqrt(FlAdd(FlMul(v[1], v[1]), FlMul(v[2], v[2])))

\* the points as they are, not moved to scale_points[0]
RoundedTranslateNowhere(fiducial_points, scale_points) == fiducial_points

\* fiducial_points - scale_points[0]
RoundedTranslate(fiducial_points, scale_points) ==
    [i \in 1..Len(fiducial_points) |->
        <<FlSub(fiducial_points[i][1], Row(scale_points, 0)[1]),
          FlSub(fiducial_points[i][2], Row(scale_points, 0)[2])>>]

\* x * scale_factor, scale_factor a float64 value
RoundedTimes(x, scale_factor) ==
    IF scale_factor.k = "fin" THEN Fin(FlMul(x, scale_factor.q), 1)
    ELSE FMul(x, scale_factor)

\* the body of both functions once the shapes are validated
RoundedNormalize(fiducial_points, scale_points, scale_length) ==
    LET d == <<FlSub(Row(scale_points, 1)[1], Row(scale_points, 0)[1]),
               FlSub(Row(scale_points, 1)[2], Row(scale_points, 0)[2])>>
        pixel_scale == FlNorm(d)
        scale_factor ==
            IF pixel_scale = Zero THEN FDiv(scale_length, Fin(Zero, 1))
            ELSE Fin(Fl(RDiv(scale_length, pixel_scale)), 1)
        moved == RoundedTranslate(fiducial_points, scale_points)
    IN  [result |-> Return([i \in 1..Len(moved) |->
                        <<RoundedTimes(moved[i][1], scale_factor),
                          RoundedTimes(moved[i][2], scale_factor)>>]),
         locals |-> [pixel_scale |-> Fin(pixel_scale, 1),
                     scale_factor |-> scale_factor],
         out |-> <<>>]

\* normalize_points_by_scale of the module, in rounded arithmetic
RoundedNormalizePointsByScale(module, fiducial_points, scale_points, scale_length) ==
    IF module = "core" /\ (~ValidatePoints(fiducial_points, <<5, 2>>)
                           \/ ~ValidatePoints(scale_points, <<2, 2>>))
    THEN Raised("ValueError")
    ELSE IF module = "legacy" /\ (Shape(fiducial_points) # <<5, 2>>
                                  \/ Shape(scale_points) # <<2, 2>>)
    THEN Raised("ValueError")
    ELSE RoundedNormalize(FlArray(fiducial_points), FlArray(scale_points),
                          Fl(scale_length))

----------------------------------------------------------------------------
(* The zoom scenario: a specimen with its scale segment is normalized, then  *)
(* the same specimen as a camera at another distance and position sees it,   *)
(* every pixel coordinate multiplied by zoom and moved by shift.             *)

\* the zoom factors run over 1/2 and 1..MaxZoom
MaxZoom == 3

Zooms == {Half} \cup {FromInt(z) : z \in 1..MaxZoom}

Shifts == {<<Zero, Zero>>, <<One, FromInt(2)>>, <<FromInt(-3), Half>>}

\* zoom * points + shift
Zoomed(points, zoom, shift) ==
    [i \in 1..Len(points) |->
        <<RAdd(RMul(zoom, points[i][1]), shift[1]),
          RAdd(RMul(zoom, points[i][2]), shift[2])>>]

\* scale segments, the last one of no length
ZoomScales ==
    {TestScale1, TestScale2, <<<<Zero, Zero>>, <<One, One>>>>,
     <<<<One, Zero>>, <<Zero, FromInt(2)>>>>,
     <<<<One, One>>, <<One, One>>>>}

ZoomCall(f, sp, len, zoom, shift) ==
    [fn |-> "zoom", fiducial_points |-> f, scale_points |-> sp,
     scale_length |-> len, zoom |-> zoom, shift |-> shift]

ZoomCalls ==
    {ZoomCall(f, sp, len, zoom, shift) :
        f \in {UnitSquare, SkewQuad}, sp \in ZoomScales,
        len \in {One, TestScaleLength}, zoom \in Zooms, shift \in Shifts}

InitZoom ==
    /\ call \in ZoomCalls
    /\ impl \in {"core", "legacy"}
    /\ pc = "ready"
    /\ result = NoResult
    /\ locals = NoLocals
    /\ stdout = <<>>
    /\ history = <<>>
    /\ Alone

\* normalize_points_by_scale(fiducial_points, scale_points, scale_length)
ZoomNormalizeOriginal ==
    /\ pc = "ready"
    /\ call.fn = "zoom"
    /\ \E r \in {RoundedNormalizePointsByScale(impl, call.fiducial_points,
                     call.scale_points, call.scale_length)} :
          /\ pc' = "normalized"
          /\ result' = r.result
          /\ locals' = r.locals
          /\ stdout' = stdout \o r.out
          /\ history' = Append(history, Made(call, impl, r.result))
    /\ UNCHANGED <<call, impl, outside>>

\* the same call on the zoomed and shifted points
ZoomNormalizeZoomed ==
    /\ pc = "normalized"
    /\ call.fn = "zoom"
    /\ \E r \in {RoundedNormalizePointsByScale(impl,
                     Zoomed(call.fiducial_points, call.zoom, call.shift),
                     Zoomed(call.scale_points, call.zoom, call.shift),
                     call.scale_length)} :
          /\ pc' = "done"
          /\ result' = r.result
          /\ locals' = r.locals
          /\ stdout' = stdout \o r.out
          /\ history' = Append(history, Made(call, impl, r.result))
    /\ UNCHANGED <<call, impl, outside>>

NextZoom == ZoomNormalizeOriginal \/ ZoomNormalizeZoomed

SpecZoom == InitZoom /\ [][NextZoom]_vars

ZoomDone == pc = "done" /\ call.fn = "zoom"

DistinctScalePoints == call.scale_points[1] # call.scale_points[2]

RAbs(x) == IF x[1] < 0 THEN <<-x[1], x[2]>> ELSE x

\* two float64 values no further apart than 16 roundings of the larger one
Close(a, b) ==
    /\ a.k = "fin" /\ b.k = "fin"
    /\ ~ RLess(RMul(FromInt(16), IF RLess(RAbs(a.q), RAbs(b.q))
                                 THEN RAbs(b.q) ELSE RAbs(a.q)),
               RMul(FromInt(Pow2(Precision)), RAbs(RSub(a.q, b.q))))

\* C29 (as stated): for every zoom > 0 and every shift the normalized points
\* of zoom * P + shift with the scale points zoom * S + shift are exactly the
\* normalized points of P with S, at the same scale_length, whenever the two
\* scale points are distinct.
C29_ZoomedNormalizesExactlyTheSame ==
    (ZoomDone /\ DistinctScalePoints) =>
        history[1].result = history[2].result

\* C29 (amended): in exact arithmetic the two results are the same; as
\* computed, with every operation rounded, each normalized coordinate of the
\* zoomed points lies within a few roundings of that of the original points
\* (here: 16 units of 2^-Precision, relative to the larger one), the zoomed
\* pixel coordinates being representable.
C29_ZoomedNormalizesTheSameUpToRounding ==
    (ZoomDone /\ DistinctScalePoints) =>
        /\ NormalizePointsByScale(impl, call.fiducial_points,
               call.scale_points, call.scale_length).result
             = NormalizePointsByScale(impl,
                   Zoomed(call.fiducial_points, call.zoom, call.shift),
                   Zoomed(call.scale_points, call.zoom, call.shift),
                   call.scale_length).result
        /\ history[1].result.kind = "return"
        /\ history[2].result.kind = "return"
        /\ \A i \in 1..5 : \A j \in 1..2 :
               Close(history[1].result.value[i][j],
                     history[2].result.value[i][j])

\* C29 witness: a zoom by 3 with a shift, the scale segment oblique, gave
\* normalized points that differ from those of the original in a rounding
C29_Witness ==
    /\ ZoomDone /\ DistinctScalePoints
    /\ call.zoom = FromInt(3)
    /\ call.shift # <<Zero, Zero>>
    /\ call.scale_points = <<<<One, Zero>>, <<Zero, FromInt(2)>>>>
    /\ history[1].result.kind = "return"
    /\ history[2].result.kind = "return"
    /\ history[1].result # history[2].result
    /\ history[1].result.value[2][1].q # Zero

----------------------------------------------------------------------------
(* The two modules side by side *)

\* what calculate_strain_tensor of the module that did not run makes of the
\* call
OtherStrainResult ==
    IF impl = "core"
    THEN LegacyCalculateStrainTensor(call.original_points,
             call.deformed_points, call.strain_type, call.center_index).result
    ELSE CoreCalculateStrainTensor(call.original_points,
             call.deformed_points, call.strain_type, call.center_index).result

\* C30: for every input, arrays of any shape and any center_index included,
\* calculate_strain_tensor of strain_analysis_core and of strain_analysis
\* either both raise ValueError or both return the same tensor.
C30_CoreAndLegacyAgree ==
    StrainDone =>
        \A other \in {OtherStrainResult} :
            \/ /\ result.kind = "raise" /\ result.exc = "ValueError"
               /\ other.kind = "raise" /\ other.exc = "ValueError"
            \/ /\ result.kind = "return" /\ other.kind = "return"
               /\ result.value = other.value

====
